---- MODULE Spec2Model ----
(***************************************************************************)
(* Model of the single-game hockey simulation engine                       *)
(* (src/scripts/classes.py: Team unit selection, Period, Game).            *)
(*                                                                         *)
(* Time.  The program keeps time in float seconds.  The model counts time  *)
(* in integer units: one second is SEC units and the 1e-6 s stagger that   *)
(* _simulate_period adds to a period start is one unit (STAGGER).  Only    *)
(* the order and the differences of time values matter to the engine, and  *)
(* at most two staggers accumulate in a game, so the compression of the    *)
(* ratio 10^6 to SEC keeps every comparison the program makes.             *)
(*                                                                         *)
(* Randomness.  Every random draw of the program is a nondeterministic     *)
(* choice from a small set of values of its distribution's support.        *)
(***************************************************************************)
EXTENDS Integers, Sequences, FiniteSets, TLC

\* ------------------------------------------------------------------------
\* Bounds of the model
\* ------------------------------------------------------------------------
SEC == 4
MaxGoals == 2
MaxPenalties == 2
\* overtime periods that may end without a goal
MaxOvertimes == 1
\* a game in which a penalty was drawn is followed for Horizon seconds, its
\* penalties are drawn in the first PenaltyWindow seconds, and it has at most
\* MaxPowerPlayGoals goals
Horizon == 150
PenaltyWindow == 30
MaxPowerPlayGoals == 1

\* the late-game specification starts this many seconds before the end of
\* the third period, so that a goal 25 s later leaves exactly 150 s
LateWindow == 175

\* penalties drawn in the late-game window
MaxLatePenalties == 1

\* the unavailable sets drawn for the unit selection hold at most this many
\* players
MaxUnavailable == 5

\* ------------------------------------------------------------------------
\* Program constants (seconds are converted with SEC where they are used)
\* ------------------------------------------------------------------------
STAGGER == 1
PERIOD_SECONDS == 1200
GAME_SECONDS == 3600
REGULATION_PERIODS == 3
MINOR_SECONDS == 120
MAJOR_SECONDS == 300
PULL_WINDOW_SECONDS == 150
MAX_PULL_DEFICIT == 2
FULL_STRENGTH == 5
MIN_SKATERS == 3
PULLED_SKATERS == 6

Sides == {"home", "away"}
None == "None"

Other(side) == IF side = "home" THEN "away" ELSE "home"

Max2(a, b) == IF a >= b THEN a ELSE b
Min2(a, b) == IF a <= b THEN a ELSE b

\* ------------------------------------------------------------------------
\* Sequence helpers (Python list operations)
\* ------------------------------------------------------------------------
Range(s) == {s[i] : i \in 1..Len(s)}

\* s[:n]
Take(s, n) == SubSeq(s, 1, Min2(n, Len(s)))

\* list.remove(x): drops the first occurrence of x
RECURSIVE Remove(_, _)
Remove(s, x) ==
    IF s = <<>> THEN <<>>
    ELSE IF Head(s) = x THEN Tail(s)
    ELSE <<Head(s)>> \o Remove(Tail(s), x)

\* ------------------------------------------------------------------------
\* Players and teams (the engine only reads them)
\* ------------------------------------------------------------------------
\* A player is identified by its name within its team; the attributes are
\* position, creation, conversion, suppression, prevention, goalkeeping and
\* discipline, in whole standard deviations of the generator's gauss(0, 1).
P(pos, cr, cv, su, pr, gk, di) ==
    [position |-> pos, creation |-> cr, conversion |-> cv,
     suppression |-> su, prevention |-> pr,
     goalkeeping |-> IF pos = "G" THEN gk ELSE 0, discipline |-> di]

\* Team.roster of the two teams of a game, in roster order
FullRoster == <<"F1", "F2", "F3", "F4", "F5", "F6", "D1", "D2", "D3", "D4", "G1">>

VARIABLES
    rosters,          \* side -> home_team.roster / away_team.roster
    team_lines,       \* side -> home_team.lines / away_team.lines
    team_pairs        \* side -> home_team.pairs / away_team.pairs

roster(side) == rosters[side]

HomePlayers ==
    [n \in Range(FullRoster) |->
        CASE n = "F1" -> P("F",  2,  2, -1, -1, 0,  0)
          [] n = "F2" -> P("F",  2,  1, -1,  0, 0, -1)
          [] n = "F3" -> P("F",  1,  1,  0,  0, 0,  1)
          [] n = "F4" -> P("F",  0, -1,  1,  2, 0,  0)
          [] n = "F5" -> P("F", -1, -1,  2,  2, 0,  2)
          [] n = "F6" -> P("F", -1, -2,  0,  1, 0, -2)
          [] n = "D1" -> P("D",  1,  0,  2,  2, 0,  0)
          [] n = "D2" -> P("D", -1, -1,  2,  1, 0,  1)
          [] n = "D3" -> P("D",  0, -1,  1,  2, 0, -1)
          [] n = "D4" -> P("D", -2, -2,  1,  2, 0,  0)
          [] OTHER    -> P("G",  0,  0,  0,  0, 2,  0)]

AwayPlayers ==
    [n \in Range(FullRoster) |->
        CASE n = "F1" -> P("F",  1,  0,  0,  0, 0,  1)
          [] n = "F2" -> P("F",  2,  2, -2, -2, 0, -2)
          [] n = "F3" -> P("F",  0,  0,  0,  1, 0,  0)
          [] n = "F4" -> P("F",  2, -1, -1,  1, 0,  0)
          [] n = "F5" -> P("F", -2, -1,  2,  2, 0,  1)
          [] n = "F6" -> P("F",  0, -2,  0,  1, 0, -1)
          [] n = "D1" -> P("D", -1,  0,  1,  2, 0,  0)
          [] n = "D2" -> P("D",  1,  2,  1,  0, 0,  0)
          [] n = "D3" -> P("D", -2, -1,  2,  2, 0,  2)
          [] n = "D4" -> P("D",  0, -1,  1,  2, 0, -1)
          [] OTHER    -> P("G",  0,  0,  0,  0, 2,  0)]

\* Team.hfa_*: multipliers in percent, xG terms in 1e-4
hfa_shot_creation_mult(side)    == 102
hfa_shot_suppression_mult(side) == 98
hfa_xg_bonus(side)              == 25
hfa_xg_suppression(side)        == -25

Player(side, n) == IF side = "home" THEN HomePlayers[n] ELSE AwayPlayers[n]

\* Team.lines and Team.pairs as the coach created them: line id -> 3
\* forwards, pair id -> 2 defensemen
FullLines == << <<"F1", "F2", "F3">>, <<"F4", "F5", "F6">> >>
FullPairs == << <<"D1", "D2">>, <<"D3", "D4">> >>

lines(side) == team_lines[side]
pairs(side) == team_pairs[side]

position(side, n) == Player(side, n).position

\* Team.forwards / defensemen / goalies
forwards(side)   == SelectSeq(roster(side), LAMBDA n : position(side, n) = "F")
defensemen(side) == SelectSeq(roster(side), LAMBDA n : position(side, n) = "D")
goalies(side)    == SelectSeq(roster(side), LAMBDA n : position(side, n) = "G")

\* the two sort keys of the unit selection
offensive_score(side, n) == Player(side, n).creation + Player(side, n).conversion
defensive_score(side, n) == Player(side, n).suppression + Player(side, n).prevention

Score(side, key, n) ==
    IF key = "offensive" THEN offensive_score(side, n) ELSE defensive_score(side, n)

\* insertion of x into a list already sorted by descending key, after every
\* element whose key is >= key(x): sorted(..., reverse=True) is stable
RECURSIVE InsertDesc(_, _, _, _)
InsertDesc(side, key, s, x) ==
    IF s = <<>> THEN <<x>>
    ELSE IF Score(side, key, Head(s)) >= Score(side, key, x)
         THEN <<Head(s)>> \o InsertDesc(side, key, Tail(s), x)
         ELSE <<x>> \o s

RECURSIVE SortedDesc(_, _, _)
SortedDesc(side, key, s) ==
    IF s = <<>> THEN <<>>
    ELSE InsertDesc(side, key, SortedDesc(side, key, SubSeq(s, 1, Len(s) - 1)), s[Len(s)])

\* the same, ascending: sorted(...) is stable
RECURSIVE InsertAsc(_, _, _, _)
InsertAsc(side, key, s, x) ==
    IF s = <<>> THEN <<x>>
    ELSE IF Score(side, key, Head(s)) <= Score(side, key, x)
         THEN <<Head(s)>> \o InsertAsc(side, key, Tail(s), x)
         ELSE <<x>> \o s

RECURSIVE SortedAsc(_, _, _)
SortedAsc(side, key, s) ==
    IF s = <<>> THEN <<>>
    ELSE InsertAsc(side, key, SortedAsc(side, key, SubSeq(s, 1, Len(s) - 1)), s[Len(s)])

\* min(s, key=...): the first element with the smallest key (s non-empty)
MinBy(side, key, s) ==
    LET i == CHOOSE i \in 1..Len(s) :
                 /\ \A j \in 1..Len(s) : Score(side, key, s[i]) <= Score(side, key, s[j])
                 /\ \A j \in 1..(i - 1) : Score(side, key, s[j]) > Score(side, key, s[i])
    IN s[i]

\* max(s, key=...): the first element with the largest key (s non-empty)
MaxBy(side, key, s) ==
    LET i == CHOOSE i \in 1..Len(s) :
                 /\ \A j \in 1..Len(s) : Score(side, key, s[i]) >= Score(side, key, s[j])
                 /\ \A j \in 1..(i - 1) : Score(side, key, s[j]) < Score(side, key, s[i])
    IN s[i]

\* ------------------------------------------------------------------------
\* Team.power_play_unit
\* ------------------------------------------------------------------------
DefCount(side, s) == Len(SelectSeq(s, LAMBDA n : position(side, n) = "D"))

\* while def_count > 2: replace the lowest-offense D by the best available F
RECURSIVE PPCapDefense(_, _, _)
PPCapDefense(side, sorted_off, st) ==
    IF \/ st.def_count <= 2
       \/ DefCount(side, st.selected) = 0
       \/ \A i \in 1..Len(sorted_off) :
             position(side, sorted_off[i]) # "F" \/ sorted_off[i] \in Range(st.selected)
    THEN st
    ELSE PPCapDefense(side, sorted_off,
             [selected |->
                  Append(Remove(st.selected,
                                SortedAsc(side, "offensive",
                                          SelectSeq(st.selected,
                                                    LAMBDA n : position(side, n) = "D"))[1]),
                         SelectSeq(sorted_off,
                                   LAMBDA n : position(side, n) = "F"
                                              /\ n \notin Range(st.selected))[1]),
              def_count |-> st.def_count - 1])

\* for candidate in skaters_sorted: fill up to target_size, at most max_ds D
RECURSIVE FillUnit(_, _, _, _, _, _, _)
FillUnit(side, sorted, i, selected, def_count, target_size, max_ds) ==
    IF i > Len(sorted) THEN selected
    ELSE LET candidate == sorted[i]
         IN IF candidate \in Range(selected)
            THEN FillUnit(side, sorted, i + 1, selected, def_count, target_size, max_ds)
            ELSE IF position(side, candidate) = "D" /\ def_count >= max_ds
            THEN FillUnit(side, sorted, i + 1, selected, def_count, target_size, max_ds)
            ELSE LET sel2 == Append(selected, candidate)
                     dc2  == IF position(side, candidate) = "D" THEN def_count + 1
                             ELSE def_count
                 IN IF Len(sel2) = target_size THEN sel2
                    ELSE FillUnit(side, sorted, i + 1, sel2, dc2, target_size, max_ds)

\* every skater of the roster, available or not
AllSkaters(side, unavailable) ==
    SelectSeq(roster(side), LAMBDA n : position(side, n) # "G")

\* skaters = [p for p in roster if p.position != "G" and p not in unavailable]
AvailableSkaters(side, unavailable) ==
    SelectSeq(roster(side), LAMBDA n : position(side, n) # "G" /\ n \notin unavailable)

\* target_size = max(0, 5 - num_unavailable)
TargetSize(side, unavailable) ==
    Max2(0, 5 - Len(SelectSeq(roster(side),
                              LAMBDA n : position(side, n) # "G" /\ n \in unavailable)))

\* if def_count == 0: swap the lowest-offense forward for the best free D
PPEnsureDefense(side, sorted_off, selected) ==
    IF /\ DefCount(side, selected) = 0
       /\ \E i \in 1..Len(sorted_off) :
             position(side, sorted_off[i]) = "D" /\ sorted_off[i] \notin Range(selected)
       /\ \E i \in 1..Len(selected) : position(side, selected[i]) = "F"
    THEN [selected |->
              Append(Remove(selected,
                            MinBy(side, "offensive",
                                  SelectSeq(selected, LAMBDA n : position(side, n) = "F"))),
                     SelectSeq(sorted_off,
                               LAMBDA n : position(side, n) = "D"
                                          /\ n \notin Range(selected))[1]),
          def_count |-> 1]
    ELSE [selected |-> selected, def_count |-> DefCount(side, selected)]

\* if len(selected) < target_size: fill up, at most max_ds defensemen
FillRest(side, sorted, st, target_size, max_ds) ==
    IF Len(st.selected) < target_size
    THEN FillUnit(side, sorted, 1, st.selected, st.def_count, target_size, max_ds)
    ELSE st.selected

PPSelect(side, sorted_off, target_size) ==
    IF sorted_off = <<>> \/ target_size = 0 THEN <<>>
    ELSE SortedDesc(side, "offensive",
             FillRest(side, sorted_off,
                      PPCapDefense(side, sorted_off,
                                   PPEnsureDefense(side, sorted_off,
                                                   Take(sorted_off, target_size))),
                      target_size, 2))

power_play_unit(side, unavailable) ==
    PPSelect(side, SortedDesc(side, "offensive", AvailableSkaters(side, unavailable)),
             TargetSize(side, unavailable))

\* ------------------------------------------------------------------------
\* Team.penalty_kill_unit (its num_skaters argument is never read)
\* ------------------------------------------------------------------------
\* while def_count < min_ds: replace the lowest-defense F by the best free D
RECURSIVE PKEnsureDefense(_, _, _, _, _)
PKEnsureDefense(side, sorted_def, st, min_ds, max_size) ==
    IF \/ st.def_count >= min_ds
       \/ \A i \in 1..Len(sorted_def) :
             position(side, sorted_def[i]) # "D" \/ sorted_def[i] \in Range(st.selected)
    THEN st
    ELSE IF \A i \in 1..Len(st.selected) : position(side, st.selected[i]) # "F"
    THEN IF Len(st.selected) < max_size
         THEN [selected |->
                   Append(st.selected,
                          SelectSeq(sorted_def,
                                    LAMBDA n : position(side, n) = "D"
                                               /\ n \notin Range(st.selected))[1]),
               def_count |-> st.def_count + 1]
         ELSE st
    ELSE PKEnsureDefense(side, sorted_def,
             [selected |->
                  Append(Remove(st.selected,
                                SortedAsc(side, "defensive",
                                          SelectSeq(st.selected,
                                                    LAMBDA n : position(side, n) = "F"))[1]),
                         SelectSeq(sorted_def,
                                   LAMBDA n : position(side, n) = "D"
                                              /\ n \notin Range(st.selected))[1]),
              def_count |-> st.def_count + 1],
             min_ds, max_size)

\* while def_count > max_ds: replace the lowest-defense D by the best free F
RECURSIVE PKCapDefense(_, _, _, _)
PKCapDefense(side, sorted_def, st, max_ds) ==
    IF \/ st.def_count <= max_ds
       \/ DefCount(side, st.selected) = 0
       \/ \A i \in 1..Len(sorted_def) :
             position(side, sorted_def[i]) # "F" \/ sorted_def[i] \in Range(st.selected)
    THEN st
    ELSE PKCapDefense(side, sorted_def,
             [selected |->
                  Append(Remove(st.selected,
                                SortedAsc(side, "defensive",
                                          SelectSeq(st.selected,
                                                    LAMBDA n : position(side, n) = "D"))[1]),
                         SelectSeq(sorted_def,
                                   LAMBDA n : position(side, n) = "F"
                                              /\ n \notin Range(st.selected))[1]),
              def_count |-> st.def_count - 1],
             max_ds)

\* min_ds = 2 if total_ds_available >= 2 else total_ds_available
MinDsOne(side, skaters) == Min2(1, DefCount(side, skaters))

MinDs(side, skaters) == Min2(2, DefCount(side, skaters))

PKSelect(side, sorted_def, max_size) ==
    SortedDesc(side, "defensive",
        FillRest(side, sorted_def,
                 PKCapDefense(side, sorted_def,
                              PKEnsureDefense(side, sorted_def,
                                  [selected |-> Take(sorted_def, max_size),
                                   def_count |-> DefCount(side, Take(sorted_def, max_size))],
                                  MinDs(side, sorted_def), max_size),
                              Min2(3, max_size)),
                 max_size, Min2(3, max_size)))

penalty_kill_unit(side, unavailable, num_skaters) ==
    IF AvailableSkaters(side, unavailable) = <<>> \/ TargetSize(side, unavailable) = 0
    THEN <<>>
    ELSE PKSelect(side, SortedDesc(side, "defensive", AvailableSkaters(side, unavailable)),
                  Min2(TargetSize(side, unavailable),
                       Len(AvailableSkaters(side, unavailable))))

\* ------------------------------------------------------------------------
\* Game: state
\* ------------------------------------------------------------------------
VARIABLES
    pc,               \* position in simulate_game
    current_time,     \* Game.current_time
    current_period,   \* Game.current_period: None or a Period
    score,            \* side -> home_score / away_score
    line_id,          \* side -> home_line_id / away_line_id
    pair_id,          \* side -> home_pair_id / away_pair_id
    fwd_deadline,     \* side -> home_fwd_deadline / away_fwd_deadline
    def_deadline,     \* side -> home_def_deadline / away_def_deadline
    penalties,        \* side -> home_penalties / away_penalties (list of records)
    unavailable,      \* side -> unavailable_home / unavailable_away (set of players)
    special_skaters,  \* side -> special_home_skaters / special_away_skaters
    pulled_team,      \* 'home' | 'away' | None
    penalized_team,   \* 'home' | 'away' | None
    players,          \* side -> home_players / away_players (on-ice cache)
    events,           \* Game.events: the events appended by the last step
    before,           \* Game.events: time and score snapshot of the newest
                      \* event appended before the last step (NoEvent: none)
    goal_events,      \* Game.events: side -> number of 'goal' events appended since Init
    toi,              \* generate_box_scores: the time its loop over Game.events has
                      \* credited to the contexts, all contexts together
    box,              \* generate_box_scores: in_pp, pp_team and the side with the
                      \* PP tag in prev_matchup (None: a line/pairing context)
                      \* after its loop has processed Game.events
    manpower,         \* what the last call of _get_manpower_state returned
    penalties_drawn,  \* number of penalty events so far (bounded by MaxPenalties)
    last_step,        \* what the last step did (observation only)
    schedule,         \* League.build_weeks: the list of games it was called with
    remaining,        \* League.build_weeks: the games not yet in a week
    weeks             \* League.build_weeks: the weeks built so far

vars == <<pc, rosters, team_lines, team_pairs, current_time, current_period, score, line_id, pair_id, fwd_deadline,
          def_deadline, penalties, unavailable, special_skaters, pulled_team,
          penalized_team, players, events, before, goal_events, toi, box, manpower,
          penalties_drawn, last_step, schedule, remaining, weeks>>

\* Optional[List[Player]]: None, or a list
NoUnit == [is_none |-> TRUE, unit |-> <<>>]
Unit(u) == [is_none |-> FALSE, unit |-> u]
\* Python truth value of an Optional[List]
Truthy(sp) == ~sp.is_none /\ sp.unit # <<>>

NoPeriod == [period_number |-> 0, is_overtime |-> FALSE, start_time |-> 0, end_time |-> 0]

\* The Game object as one record, so that a handler is a function of it.
\* A handler appends to events; none but _simulate_period reads them, and
\* that one reads the type of the newest.  The record holds the lists of
\* the two Team objects the Game refers to as well: a handler that changed
\* one of them in place would return it changed.
Self ==
    [rosters |-> rosters, team_lines |-> team_lines, team_pairs |-> team_pairs,
     current_time |-> current_time, current_period |-> current_period,
     score |-> score, line_id |-> line_id, pair_id |-> pair_id,
     fwd_deadline |-> fwd_deadline, def_deadline |-> def_deadline,
     penalties |-> penalties, unavailable |-> unavailable,
     special_skaters |-> special_skaters, pulled_team |-> pulled_team,
     penalized_team |-> penalized_team, players |-> players,
     events |-> <<>>]

NoEvent == [time |-> 0, home_score |-> 0, away_score |-> 0]

\* the snapshot of the newest event of a non-empty list
Newest(evs) ==
    [time |-> evs[Len(evs)].time, home_score |-> evs[Len(evs)].home_score,
     away_score |-> evs[Len(evs)].away_score]

\* number of 'goal' events of side among evs
GoalEvents(evs, side) ==
    Cardinality({i \in 1..Len(evs) : evs[i].type = "goal" /\ evs[i].team = side})

\* time of the newest event of the log (0 if there is none)
NewestTime == IF events # <<>> THEN Newest(events).time ELSE before.time

\* generate_box_scores, the loop over the events: time_elapsed = event_time -
\* prev_time is credited to one context if it is positive, and prev_time
\* becomes event_time whatever its sign.  The context credited is never
\* None, so the sum over the contexts grows by every positive time_elapsed.
RECURSIVE CreditedTime(_, _)
CreditedTime(evs, prev_time) ==
    IF evs = <<>> THEN 0
    ELSE (IF Head(evs).time - prev_time > 0 THEN Head(evs).time - prev_time ELSE 0)
         + CreditedTime(Tail(evs), Head(evs).time)

\* generate_box_scores, the shadow pointers current_*_line_id and
\* current_*_pair_id after one more event.  The tests on the description of
\* a line_change event select: 'Home forward line change' the home line,
\* 'Home defensive pair change' the home pair, the same for 'Away', and
\* 'Both teams change forwards and defense' all four; a description that
\* names a team and no unit ('lines and pairs') passes none of the tests.
\* a replay that follows the changes of both teams alone
ReplayBothOnly(ids, e) ==
    IF e.type = "line_change" /\ e.team = None
    THEN [line_id |-> [side \in Sides |-> (ids.line_id[side] % Len(lines(side))) + 1],
          pair_id |-> [side \in Sides |-> (ids.pair_id[side] % Len(pairs(side))) + 1]]
    ELSE ids

ReplayEvent(ids, e) ==
    IF e.type # "line_change" THEN ids
    ELSE IF e.team = "home" /\ e.unit = "forward"
    THEN [ids EXCEPT !.line_id["home"] = (@ % Len(lines("home"))) + 1]
    ELSE IF e.team = "home" /\ e.unit = "defense"
    THEN [ids EXCEPT !.pair_id["home"] = (@ % Len(pairs("home"))) + 1]
    ELSE IF e.team = "away" /\ e.unit = "forward"
    THEN [ids EXCEPT !.line_id["away"] = (@ % Len(lines("away"))) + 1]
    ELSE IF e.team = "away" /\ e.unit = "defense"
    THEN [ids EXCEPT !.pair_id["away"] = (@ % Len(pairs("away"))) + 1]
    ELSE IF e.team = None
    THEN [line_id |-> [side \in Sides |-> (ids.line_id[side] % Len(lines(side))) + 1],
          pair_id |-> [side \in Sides |-> (ids.pair_id[side] % Len(pairs(side))) + 1]]
    ELSE ids

\* the shadow pointers after the events evs, from the shadow pointers ids
RECURSIVE Replay(_, _)
Replay(ids, evs) ==
    IF evs = <<>> THEN ids ELSE Replay(ReplayEvent(ids, Head(evs)), Tail(evs))

\* generate_box_scores before its loop: in_pp = False, pp_team = None,
\* prev_matchup = None
NoContext == [in_pp |-> FALSE, pp_team |-> None, pp_side |-> None]

\* generate_box_scores, the PP/PK state after one more event: pp_start sets
\* in_pp, and pp_team if the tag is 'home_pp' / 'away_pp' (the description
\* then names the same side; the tag and description of an even-manpower
\* start name none); pp_end, and period_end while in_pp, clear both
PPState(b, e) ==
    IF e.type = "pp_start"
    THEN [b EXCEPT !.in_pp = TRUE,
                   !.pp_team = IF e.context = "home_pp" \/ e.team = "home" THEN "home"
                               ELSE IF e.context = "away_pp" \/ e.team = "away" THEN "away"
                               ELSE @]
    ELSE IF e.type = "pp_end" \/ (e.type = "period_end" /\ b.in_pp)
    THEN [b EXCEPT !.in_pp = FALSE, !.pp_team = None]
    ELSE b

\* generate_box_scores, current_matchup: ('PP', 'PP', 'PK', 'PK') tags home,
\* ('PK', 'PK', 'PP', 'PP') away; in_pp without pp_team falls back on the
\* tag of prev_matchup, and on the home tag if that is a line/pairing
\* context; at the end of the iteration prev_matchup = current_matchup
Matchup(b) ==
    [b EXCEPT !.pp_side = IF ~b.in_pp THEN None
                          ELSE IF b.pp_team # None THEN b.pp_team
                          ELSE IF @ # None THEN @
                          ELSE "home"]

\* the state of the loop after the events evs
RECURSIVE Contexts(_, _)
Contexts(b, evs) ==
    IF evs = <<>> THEN b ELSE Contexts(Matchup(PPState(b, Head(evs))), Tail(evs))

\* generate_box_scores, what one event adds to the counts of current_matchup
\* (the row of every matchup is returned, so the sum over the rows grows by
\* the same): a shot by the side its description names; a goal by the side
\* whose score is above the one of the event before it (prev is the list
\* of that event, empty if i = 0); a penalty by its tag, taken with its
\* minutes by one side and drawn by the other
NoCounts ==
    [shots |-> [side \in Sides |-> 0], goals |-> [side \in Sides |-> 0],
     penalties_taken |-> [side \in Sides |-> 0],
     penalties_drawn |-> [side \in Sides |-> 0],
     penalty_minutes |-> [side \in Sides |-> 0]]

\* a loop without the test of the away score
CountEventHomeGoalsOnly(c, e, prev) ==
    IF e.type = "shot"
    THEN IF e.team \in Sides THEN [c EXCEPT !.shots[e.team] = @ + 1] ELSE c
    ELSE IF e.type = "goal"
    THEN IF prev = <<>> THEN c
         ELSE IF e.home_score > prev[1].home_score THEN [c EXCEPT !.goals["home"] = @ + 1]
         ELSE c
    ELSE IF e.type = "penalty"
    THEN IF e.context = "home_penalty" \/ e.team = "home"
         THEN [c EXCEPT !.penalties_taken["home"] = @ + 1,
                        !.penalty_minutes["home"] = @ + e.payload,
                        !.penalties_drawn["away"] = @ + 1]
         ELSE IF e.context = "away_penalty" \/ e.team = "away"
         THEN [c EXCEPT !.penalties_taken["away"] = @ + 1,
                        !.penalty_minutes["away"] = @ + e.payload,
                        !.penalties_drawn["home"] = @ + 1]
         ELSE c
    ELSE c

CountEvent(c, e, prev) ==
    IF e.type = "shot"
    THEN IF e.team \in Sides THEN [c EXCEPT !.shots[e.team] = @ + 1] ELSE c
    ELSE IF e.type = "goal"
    THEN IF prev = <<>> THEN c
         ELSE IF e.home_score > prev[1].home_score THEN [c EXCEPT !.goals["home"] = @ + 1]
         ELSE IF e.away_score > prev[1].away_score THEN [c EXCEPT !.goals["away"] = @ + 1]
         ELSE c
    ELSE IF e.type = "penalty"
    THEN IF e.context = "home_penalty" \/ e.team = "home"
         THEN [c EXCEPT !.penalties_taken["home"] = @ + 1,
                        !.penalty_minutes["home"] = @ + e.payload,
                        !.penalties_drawn["away"] = @ + 1]
         ELSE IF e.context = "away_penalty" \/ e.team = "away"
         THEN [c EXCEPT !.penalties_taken["away"] = @ + 1,
                        !.penalty_minutes["away"] = @ + e.payload,
                        !.penalties_drawn["home"] = @ + 1]
         ELSE c
    ELSE c

\* the counts c after the events evs, prev the event before the first
RECURSIVE Counts(_, _, _)
Counts(c, evs, prev) ==
    IF evs = <<>> THEN c
    ELSE Counts(CountEvent(c, Head(evs), prev), Tail(evs), <<Newest(<<Head(evs)>>)>>)

\* generate_box_scores after its loop: any(e[1] == 'overtime_start' ...); an
\* overtime period is started by nothing but the step that logs that event
went_ot == current_period.is_overtime

game_end_time == IF ~went_ot THEN SEC * GAME_SECONDS ELSE NewestTime

\* generate_box_scores: the sum of toi over the contexts of its rows, the
\* time from the last event to game_end_time added to the last context.
\* round(toi, 2) leaves every time of the model as it is: the times are
\* multiples of a quarter of a second.
BoxScoreToi ==
    toi + (IF game_end_time > NewestTime THEN game_end_time - NewestTime ELSE 0)

\* the state after a handler returned g
Becomes(g) ==
    /\ rosters' = g.rosters
    /\ team_lines' = g.team_lines
    /\ team_pairs' = g.team_pairs
    /\ current_time' = g.current_time
    /\ current_period' = g.current_period
    /\ score' = g.score
    /\ line_id' = g.line_id
    /\ pair_id' = g.pair_id
    /\ fwd_deadline' = g.fwd_deadline
    /\ def_deadline' = g.def_deadline
    /\ penalties' = g.penalties
    /\ unavailable' = g.unavailable
    /\ special_skaters' = g.special_skaters
    /\ pulled_team' = g.pulled_team
    /\ penalized_team' = g.penalized_team
    /\ players' = g.players
    /\ events' = g.events
    /\ before' = IF events # <<>> THEN Newest(events) ELSE before
    /\ goal_events' = [side \in Sides |-> goal_events[side] + GoalEvents(g.events, side)]
    /\ toi' = toi + CreditedTime(g.events, NewestTime)
    /\ box' = Contexts(box, g.events)
    /\ UNCHANGED <<schedule, remaining, weeks>>

\* self.events.append((time, type, description, home_score, away_score, context, ...))
\* team is the side the description names (None if it names no side), unit
\* the unit it names ('forward line': forward, 'defensive pair': defense,
\* None if it names none), payload the element after the on-ice names (0 if
\* there is none).  line_id and pair_id are not in the tuple: they keep the
\* rotation pointers of the Game at the time of the append, for comparison
\* with the pointers that generate_box_scores replays from the log.
Event(g, time, type, team, context, payload) ==
    [time |-> time, type |-> type, team |-> team, unit |-> None,
     home_score |-> g.score["home"], away_score |-> g.score["away"],
     context |-> context, payload |-> payload,
     line_id |-> g.line_id, pair_id |-> g.pair_id]

Log(g, time, type, team, context, payload) ==
    [g EXCEPT !.events = Append(@, Event(g, time, type, team, context, payload))]

\* sum(1 for p in penalties if p['segment_end'] > self.current_time)
ActiveCount(g, side) ==
    Len(SelectSeq(g.penalties[side], LAMBDA p : p.segment_end > g.current_time))

\* the skater count without the floor of three
SkatersForNoFloor(active) == FULL_STRENGTH - active

\* max(3, 5 - active)
SkatersFor(active) == Max2(MIN_SKATERS, FULL_STRENGTH - active)

\* ------------------------------------------------------------------------
\* Game._compute_pulled_skaters, _build_on_ice_players, _rebuild_on_ice_caches
\* ------------------------------------------------------------------------
\* base: the special unit if there is one, else line and pair, without goalies
SkaterBase(g, side) ==
    SelectSeq(IF Truthy(g.special_skaters[side]) THEN g.special_skaters[side].unit
              ELSE lines(side)[g.line_id[side]] \o pairs(side)[g.pair_id[side]],
              LAMBDA n : position(side, n) # "G")

\* the best-offense skater of the roster not in base joins it; at most 6
AddExtraAttacker(side, base) ==
    Take(IF \E i \in 1..Len(roster(side)) :
               position(side, roster(side)[i]) # "G" /\ roster(side)[i] \notin Range(base)
         THEN Append(base,
                     MaxBy(side, "offensive",
                           SelectSeq(roster(side),
                                     LAMBDA n : position(side, n) # "G"
                                                /\ n \notin Range(base))))
         ELSE base,
         PULLED_SKATERS)

_compute_pulled_skaters(g, side) == AddExtraAttacker(side, SkaterBase(g, side))

_build_on_ice_players(g, side, skaters_override) ==
    LET goalie == goalies(side)[1]
    IN IF Truthy(skaters_override)
       THEN IF g.pulled_team = side /\ Len(skaters_override.unit) >= PULLED_SKATERS
            THEN skaters_override.unit
            ELSE Append(skaters_override.unit, goalie)
       ELSE lines(side)[g.line_id[side]] \o pairs(side)[g.pair_id[side]] \o <<goalie>>

\* a rebuild that extends the line of the Team with the pair in place
RebuildExtendingLines(g) ==
    LET override(side) ==
            IF g.pulled_team = side THEN Unit(_compute_pulled_skaters(g, side))
            ELSE g.special_skaters[side]
    IN [g EXCEPT !.players =
            [side \in Sides |-> _build_on_ice_players(g, side, override(side))],
                 !.team_lines =
            [side \in Sides |->
                [g.team_lines[side] EXCEPT ![g.line_id[side]] =
                    @ \o g.team_pairs[side][g.pair_id[side]]]]]

_rebuild_on_ice_caches(g) ==
    LET override(side) ==
            IF g.pulled_team = side THEN Unit(_compute_pulled_skaters(g, side))
            ELSE g.special_skaters[side]
    IN [g EXCEPT !.players =
            [side \in Sides |-> _build_on_ice_players(g, side, override(side))]]

\* ------------------------------------------------------------------------
\* Random draws
\* ------------------------------------------------------------------------
\* random.uniform(low, high): the draws of the model are the least (u = 0) and
\* the greatest (u = 1) value of ClockDraws inside the window, and the two
\* ends of the window, low (u = 2) and high (u = 3), in seconds
ClockDraws == {50, 100}
UniformDraws == {0}
WindowEnds == {2, 3}
Uniform(low, high, u) ==
    LET window == {x \in ClockDraws : low <= x /\ x <= high}
    IN IF u = 0 THEN CHOOSE x \in window : \A y \in window : x <= y
       ELSE IF u = 1 THEN CHOOSE x \in window : \A y \in window : x >= y
       ELSE IF u = 2 THEN low
       ELSE high

UnitKeys == {"home_forward", "home_defense", "away_forward", "away_defense"}

\* random.expovariate(total_rate), in seconds
DeltaDraws == {0, 25}

PenaltyTypes == {"minor", "double_minor", "major"}

\* ------------------------------------------------------------------------
\* Game._resample_clocks; u maps each unit key to the draw of its uniform
\* ------------------------------------------------------------------------
FWD_LOW == 30
FWD_HIGH == 60
DEF_LOW == 40
DEF_HIGH == 60
FWD_LOW_SPECIAL == 50
FWD_HIGH_SPECIAL == 70
DEF_LOW_SPECIAL == 100
DEF_HIGH_SPECIAL == 120

\* a resampling whose windows widen for penalties alone
ResampleIgnoringPulled(g, unit, u) ==
    LET active_home == ActiveCount(g, "home")
        active_away == ActiveCount(g, "away")
        special == ~(active_home = 0 /\ active_away = 0)
        fwd_low  == IF special THEN FWD_LOW_SPECIAL ELSE FWD_LOW
        fwd_high == IF special THEN FWD_HIGH_SPECIAL ELSE FWD_HIGH
        def_low  == IF special THEN DEF_LOW_SPECIAL ELSE DEF_LOW
        def_high == IF special THEN DEF_HIGH_SPECIAL ELSE DEF_HIGH
        fwd(side) == g.current_time + SEC * Uniform(fwd_low, fwd_high, u[side \o "_forward"])
        def(side) == g.current_time + SEC * Uniform(def_low, def_high, u[side \o "_defense"])
    IN IF unit = None
       THEN [g EXCEPT !.fwd_deadline = [side \in Sides |-> fwd(side)],
                      !.def_deadline = [side \in Sides |-> def(side)]]
       ELSE IF unit = "home_forward" THEN [g EXCEPT !.fwd_deadline["home"] = fwd("home")]
       ELSE IF unit = "home_defense" THEN [g EXCEPT !.def_deadline["home"] = def("home")]
       ELSE IF unit = "away_forward" THEN [g EXCEPT !.fwd_deadline["away"] = fwd("away")]
       ELSE IF unit = "away_defense" THEN [g EXCEPT !.def_deadline["away"] = def("away")]
       ELSE g

_resample_clocks(g, unit, u) ==
    LET active_home == ActiveCount(g, "home")
        active_away == ActiveCount(g, "away")
        special == (g.pulled_team # None) \/ ~(active_home = 0 /\ active_away = 0)
        fwd_low  == IF special THEN FWD_LOW_SPECIAL ELSE FWD_LOW
        fwd_high == IF special THEN FWD_HIGH_SPECIAL ELSE FWD_HIGH
        def_low  == IF special THEN DEF_LOW_SPECIAL ELSE DEF_LOW
        def_high == IF special THEN DEF_HIGH_SPECIAL ELSE DEF_HIGH
        fwd(side) == g.current_time + SEC * Uniform(fwd_low, fwd_high, u[side \o "_forward"])
        def(side) == g.current_time + SEC * Uniform(def_low, def_high, u[side \o "_defense"])
    IN IF unit = None
       THEN [g EXCEPT !.fwd_deadline = [side \in Sides |-> fwd(side)],
                      !.def_deadline = [side \in Sides |-> def(side)]]
       ELSE IF unit = "home_forward" THEN [g EXCEPT !.fwd_deadline["home"] = fwd("home")]
       ELSE IF unit = "home_defense" THEN [g EXCEPT !.def_deadline["home"] = def("home")]
       ELSE IF unit = "away_forward" THEN [g EXCEPT !.fwd_deadline["away"] = fwd("away")]
       ELSE IF unit = "away_defense" THEN [g EXCEPT !.def_deadline["away"] = def("away")]
       ELSE g

\* Game.start_shift
start_shift(g, u) == _resample_clocks(_rebuild_on_ice_caches(g), None, u)

\* ------------------------------------------------------------------------
\* Game._select_penalized_skater; pick is the position in the pool that the
\* weighted draw lands on (every weight exp(-beta * discipline) is positive)
\* ------------------------------------------------------------------------
PenaltyPool(g, team) ==
    IF g.players[team] # <<>>
    THEN SelectSeq(g.players[team], LAMBDA n : position(team, n) # "G")
    ELSE forwards(team) \o defensemen(team)

_select_penalized_skater(g, team, pick) ==
    LET pool == PenaltyPool(g, team)
    IN IF pool = <<>> THEN None ELSE pool[pick]

\* ------------------------------------------------------------------------
\* Game._recompute_special_units
\* ------------------------------------------------------------------------
\* n_home / n_away of the handlers: max(3, 5 - active penalties of the side)
Skaters(g, side) == SkatersFor(ActiveCount(g, side))

_recompute_special_units(g) ==
    [g EXCEPT
       !.penalized_team =
           IF Skaters(g, "home") > Skaters(g, "away") THEN "away"
           ELSE IF Skaters(g, "away") > Skaters(g, "home") THEN "home"
           ELSE None,
       !.special_skaters =
           [side \in Sides |->
              IF Skaters(g, "home") = FULL_STRENGTH /\ Skaters(g, "away") = FULL_STRENGTH
              THEN NoUnit
              ELSE IF Skaters(g, side) > Skaters(g, Other(side))
              THEN Unit(power_play_unit(side, g.unavailable[side]))
              ELSE Unit(penalty_kill_unit(side, g.unavailable[side], Skaters(g, side)))]]

\* ------------------------------------------------------------------------
\* Game._enter_power_play; ptype is the sampled penalty type
\* ------------------------------------------------------------------------
Duration(ptype) == IF ptype = "major" THEN MAJOR_SECONDS ELSE MINOR_SECONDS
Segments(ptype) == IF ptype = "double_minor" THEN 2 ELSE 1

Label(n_home, n_away) == ToString(n_home) \o "v" \o ToString(n_away)

\* penalties.append({...}); unavailable.add(penalized)
AddPenalty(g, offending_team, ptype, penalized) ==
    [g EXCEPT
       !.penalties[offending_team] =
           Append(@, [player |-> penalized, type |-> ptype,
                      segments_left |-> Segments(ptype),
                      segment_end |-> g.current_time + SEC * Duration(ptype)]),
       !.unavailable[offending_team] = IF penalized # None THEN @ \cup {penalized} ELSE @]

\* PK for the offending team, PP for the other
SetSpecialUnits(g, offending_team) ==
    [g EXCEPT !.special_skaters =
        [side \in Sides |->
           IF side = offending_team
           THEN Unit(penalty_kill_unit(side, g.unavailable[side], 4))
           ELSE Unit(power_play_unit(side, g.unavailable[side]))]]

LogPPStart(g, offending_team) ==
    IF Skaters(g, "home") = Skaters(g, "away") /\ Skaters(g, "home") < FULL_STRENGTH
    THEN Log(g, g.current_time, "pp_start", None,
             Label(Skaters(g, "home"), Skaters(g, "away")), 0)
    ELSE Log(g, g.current_time, "pp_start", Other(offending_team),
             Other(offending_team) \o "_pp", 0)

_enter_power_play(g, offending_team, ptype, pick) ==
    LogPPStart(
        SetSpecialUnits(
            AddPenalty(g, offending_team, ptype,
                       _select_penalized_skater(g, offending_team, pick)),
            offending_team),
        offending_team)

\* ------------------------------------------------------------------------
\* Game._end_one_penalty
\* ------------------------------------------------------------------------
\* [p for p in penalties if p['segment_end'] > self.current_time]
Active(g, side) == SelectSeq(g.penalties[side], LAMBDA p : p.segment_end > g.current_time)

\* min(active, key=lambda d: d['segment_end']): the first of the smallest
Oldest(active) ==
    LET i == CHOOSE i \in 1..Len(active) :
                 /\ \A j \in 1..Len(active) : active[i].segment_end <= active[j].segment_end
                 /\ \A j \in 1..(i - 1) : active[j].segment_end > active[i].segment_end
    IN active[i]

\* oldest['segments_left'] -= 1; oldest['segment_end'] = current_time + 120
\* (the record is changed in place, at its position in the list)
RECURSIVE Decrement(_, _, _)
Decrement(s, oldest, now) ==
    IF s = <<>> THEN <<>>
    ELSE IF Head(s) = oldest
         THEN <<[oldest EXCEPT !.segments_left = @ - 1,
                               !.segment_end = now + SEC * MINOR_SECONDS]>> \o Tail(s)
         ELSE <<Head(s)>> \o Decrement(Tail(s), oldest, now)

\* what _end_one_penalty does to the record oldest
Expire(g, side, oldest) ==
    IF oldest.type = "major" THEN g
    ELSE IF oldest.type = "double_minor" /\ oldest.segments_left > 1
    THEN [g EXCEPT !.penalties[side] = Decrement(@, oldest, g.current_time)]
    ELSE [g EXCEPT !.penalties[side] = Remove(@, oldest),
                   !.unavailable[side] =
                       IF oldest.player # None THEN @ \ {oldest.player} ELSE @]

ExpireOldest(g, side) ==
    IF g.penalties[side] = <<>> \/ Active(g, side) = <<>> THEN g
    ELSE Expire(g, side, Oldest(Active(g, side)))

LogPPEnd(g) ==
    IF Skaters(g, "home") = FULL_STRENGTH /\ Skaters(g, "away") = FULL_STRENGTH
    THEN Log(g, g.current_time, "pp_end", None, "full", 0)
    ELSE IF Skaters(g, "home") = Skaters(g, "away")
    THEN Log(g, g.current_time, "pp_end", None,
             Label(Skaters(g, "home"), Skaters(g, "away")), 0)
    ELSE IF Skaters(g, "home") > Skaters(g, "away")
    THEN Log(g, g.current_time, "pp_end", "home", "home_pp", 0)
    ELSE Log(g, g.current_time, "pp_end", "away", "away_pp", 0)

_end_one_penalty(g, side) == _recompute_special_units(LogPPEnd(ExpireOldest(g, side)))

\* ------------------------------------------------------------------------
\* Game._rotate_forward, _rotate_defense, _handle_line_change
\* ------------------------------------------------------------------------
_rotate_forward(g, team) ==
    [g EXCEPT !.line_id[team] = (@ % Len(lines(team))) + 1]

_rotate_defense(g, team) ==
    [g EXCEPT !.pair_id[team] = (@ % Len(pairs(team))) + 1]

\* a change of both teams that rotates the home team alone
RotateHomeOnly(g, team, unit) ==
    IF team = None
    THEN _rotate_defense(_rotate_forward(g, "home"), "home")
    ELSE IF unit = None THEN _rotate_defense(_rotate_forward(g, team), team)
    ELSE IF unit = "forward" THEN _rotate_forward(g, team)
    ELSE IF unit = "defense" THEN _rotate_defense(g, team)
    ELSE g

\* the rotations of _handle_line_change
Rotate(g, team, unit) ==
    IF team = None
    THEN _rotate_defense(_rotate_forward(
             _rotate_defense(_rotate_forward(g, "home"), "home"), "away"), "away")
    ELSE IF unit = None THEN _rotate_defense(_rotate_forward(g, team), team)
    ELSE IF unit = "forward" THEN _rotate_forward(g, team)
    ELSE IF unit = "defense" THEN _rotate_defense(g, team)
    ELSE g

\* a unit change that resamples all four clocks
UnitKeyOfAll(team, unit) == None

\* unit_key of the start_shift call: None resamples all four clocks
UnitKey(team, unit) ==
    IF team = None THEN None
    ELSE team \o "_" \o (IF unit = "forward" THEN "forward" ELSE "defense")

\* 'Both teams change forwards and defense', or f'{label_team} {label_unit} change'
LogLineChange(g, team, unit) ==
    [g EXCEPT !.events =
        Append(@, [Event(g, g.current_time, "line_change", team, "", 0)
                      EXCEPT !.unit = IF team = None THEN None ELSE unit])]

\* a line change that leaves the on-ice caches as they were
HandleLineChangeNoRebuild(g, team, unit, u) ==
    LogLineChange(
        _resample_clocks(Rotate(g, team, unit), UnitKey(team, unit), u),
        team, unit)

_handle_line_change(g, team, unit, u) ==
    LogLineChange(
        _resample_clocks(_rebuild_on_ice_caches(Rotate(g, team, unit)),
                         UnitKey(team, unit), u),
        team, unit)

\* ------------------------------------------------------------------------
\* Game._get_manpower_state
\* ------------------------------------------------------------------------
\* a pulled goalie that counts as a sixth skater for both sides
ManpowerSideBothSix(g, side) ==
    IF g.pulled_team # None THEN PULLED_SKATERS
    ELSE SkatersFor(ActiveCount(g, side))

ManpowerSide(g, side) ==
    IF g.pulled_team = side THEN PULLED_SKATERS
    ELSE SkatersFor(ActiveCount(g, side))

_get_manpower_state(g) == <<ManpowerSide(g, "home"), ManpowerSide(g, "away")>>

\* ------------------------------------------------------------------------
\* Rate model.  Shot and penalty rates are in 1e-5 events per minute, xG in
\* 1e-4.  TINY, the floor of a shot rate, is the smallest positive rate.
\* ------------------------------------------------------------------------
SHOT_RATE_BASELINES ==
    (<<3, 3>> :> <<41800, 41800>>)  @@ (<<3, 4>> :> <<19800, 79200>>)  @@
    (<<3, 5>> :> <<11500, 135300>>) @@ (<<3, 6>> :> <<7200, 192000>>)  @@
    (<<4, 3>> :> <<79200, 19800>>)  @@ (<<4, 4>> :> <<46200, 46200>>)  @@
    (<<4, 5>> :> <<22100, 75400>>)  @@ (<<4, 6>> :> <<10400, 156600>>) @@
    (<<5, 3>> :> <<135300, 11500>>) @@ (<<5, 4>> :> <<75400, 22100>>)  @@
    (<<5, 5>> :> <<40000, 40000>>)  @@ (<<5, 6>> :> <<17400, 90000>>)  @@
    (<<6, 3>> :> <<192000, 7200>>)  @@ (<<6, 4>> :> <<156600, 10400>>) @@
    (<<6, 5>> :> <<90000, 17400>>)

XG_BASELINES ==
    (<<3, 3>> :> <<1050, 1050>>) @@ (<<3, 4>> :> <<850, 1290>>)  @@
    (<<3, 5>> :> <<610, 2180>>)  @@ (<<3, 6>> :> <<500, 2250>>)  @@
    (<<4, 3>> :> <<1290, 850>>)  @@ (<<4, 4>> :> <<1050, 1050>>) @@
    (<<4, 5>> :> <<760, 1460>>)  @@ (<<4, 6>> :> <<710, 1720>>)  @@
    (<<5, 3>> :> <<2180, 610>>)  @@ (<<5, 4>> :> <<1460, 760>>)  @@
    (<<5, 5>> :> <<950, 950>>)   @@ (<<5, 6>> :> <<1170, 1630>>) @@
    (<<6, 3>> :> <<2250, 500>>)  @@ (<<6, 4>> :> <<1720, 710>>)  @@
    (<<6, 5>> :> <<1630, 1170>>)

\* the distribution of the scoring side with the first number of skaters,
\* in percent (0, 1, 2 assists)
ASSIST_DISTRIBUTIONS ==
    (<<3, 3>> :> <<12, 48, 40>>) @@ (<<3, 4>> :> <<20, 50, 30>>) @@
    (<<3, 5>> :> <<28, 48, 24>>) @@ (<<3, 6>> :> <<60, 32, 8>>)  @@
    (<<4, 3>> :> <<10, 40, 50>>) @@ (<<4, 4>> :> <<11, 31, 58>>) @@
    (<<4, 5>> :> <<25, 45, 30>>) @@ (<<4, 6>> :> <<55, 35, 10>>) @@
    (<<5, 3>> :> <<7, 35, 58>>)  @@ (<<5, 4>> :> <<5, 25, 70>>)  @@
    (<<5, 5>> :> <<9, 22, 69>>)  @@ (<<5, 6>> :> <<45, 37, 18>>) @@
    (<<6, 3>> :> <<5, 33, 62>>)  @@ (<<6, 4>> :> <<2, 18, 80>>)  @@
    (<<6, 5>> :> <<7, 20, 73>>)

\* sample_assists: the key it looks up, both numbers clamped to 3..6
AssistSituation(n_scoring_team, n_opposing_team) ==
    <<Max2(3, Min2(6, n_scoring_team)), Max2(3, Min2(6, n_opposing_team))>>

SHOT_RATE_SCALE == 2100
XG_SCALE == 60
GOALIE_SUPPRESSION_SCALE == XG_SCALE * 2
TINY == 1
PEN_BASE == 10000
HFA_PENALTY_MULT == 1075
PEN_NORM == 1083
PEN_CLAMP_LO == 500
PEN_CLAMP_HI == 1800

\* math.exp(-PEN_BETA * discipline), in 1e-3
PenWeight(d) ==
    CASE d = -2 -> 2226 [] d = -1 -> 1492 [] d = 0 -> 1000 [] d = 1 -> 670 [] OTHER -> 449

\* sum(p.<attr> for p in on_ice if p.position != 'G')
RECURSIVE SkaterSum(_, _, _)
SkaterSum(side, on_ice, attr) ==
    IF on_ice = <<>> THEN 0
    ELSE (IF position(side, Head(on_ice)) # "G" THEN Player(side, Head(on_ice))[attr] ELSE 0)
         + SkaterSum(side, Tail(on_ice), attr)

\* next((p for p in on_ice if p.position == 'G'), None).goalkeeping, else 0.0
GoalieGoalkeeping(side, on_ice) ==
    LET gs == SelectSeq(on_ice, LAMBDA n : position(side, n) = "G")
    IN IF gs = <<>> THEN 0 ELSE Player(side, gs[1]).goalkeeping

RECURSIVE PenWeightSum(_, _)
PenWeightSum(side, skaters) ==
    IF skaters = <<>> THEN 0
    ELSE PenWeight(Player(side, Head(skaters)).discipline) + PenWeightSum(side, Tail(skaters))

\* self._home_pen_mult / self._away_pen_mult, in 1e-3
PenMult(g, side) ==
    LET sk == SelectSeq(g.players[side], LAMBDA n : position(side, n) # "G")
        mean == IF sk # <<>> THEN PenWeightSum(side, sk) \div Len(sk) ELSE 1000
    IN Min2(PEN_CLAMP_HI, Max2(PEN_CLAMP_LO, (mean * 1000) \div PEN_NORM))

\* the (n_home, n_away) key of the baseline tables
Situation(g) == _get_manpower_state(g)

calculate_event_rates(g) ==
    LET situation == Situation(g)
        base == IF situation \in DOMAIN SHOT_RATE_BASELINES
                THEN SHOT_RATE_BASELINES[situation]
                ELSE SHOT_RATE_BASELINES[<<5, 5>>]
        base_home_shots == (base[1] * hfa_shot_creation_mult("home")) \div 100
        base_away_shots == (base[2] * hfa_shot_suppression_mult("home")) \div 100
        creation(side) == SkaterSum(side, g.players[side], "creation")
        suppression(side) == SkaterSum(side, g.players[side], "suppression")
    IN [home_shot |-> Max2(TINY, base_home_shots + SHOT_RATE_SCALE * creation("home")
                                     - SHOT_RATE_SCALE * suppression("away")),
        away_shot |-> Max2(TINY, base_away_shots + SHOT_RATE_SCALE * creation("away")
                                     - SHOT_RATE_SCALE * suppression("home")),
        home_penalty |-> (((PEN_BASE * PenMult(g, "home")) \div 1000) * HFA_PENALTY_MULT)
                             \div 1000,
        away_penalty |-> (PEN_BASE * PenMult(g, "away")) \div 1000]

_get_xg_baseline(g, for_team) ==
    LET situation == Situation(g)
        xg == IF situation \in DOMAIN XG_BASELINES THEN XG_BASELINES[situation]
              ELSE XG_BASELINES[<<5, 5>>]
    IN IF for_team = "home" THEN xg[1] ELSE xg[2]

\* the xG of a shot of team, clamped to [0, 1]
ShotXG(g, team) ==
    LET opp == Other(team)
        base_xg == _get_xg_baseline(g, team)
        conversion_modifier == XG_SCALE * SkaterSum(team, g.players[team], "conversion")
        prevention_modifier == XG_SCALE * SkaterSum(opp, g.players[opp], "prevention")
        goalie_modifier ==
            IF g.pulled_team # opp
            THEN GOALIE_SUPPRESSION_SCALE * GoalieGoalkeeping(opp, g.players[opp])
            ELSE 0
        home_xg_bonus == IF team = "home" THEN hfa_xg_bonus("home")
                         ELSE hfa_xg_suppression("home")
    IN Max2(0, Min2(10000, base_xg + conversion_modifier - prevention_modifier
                              - goalie_modifier + home_xg_bonus))

\* Game._process_shot: logs the shot; the caller learns is_goal, which is
\* the draw random() < xg and so can be true only if xg > 0, false only if xg < 1
_process_shot(g, team) ==
    LET context == IF team = "home" /\ g.penalized_team = "away" THEN "home_pp_shot"
                   ELSE IF team = "away" /\ g.penalized_team = "home" THEN "away_pp_shot"
                   ELSE "even"
    IN Log(g, g.current_time, "shot", team, context, ShotXG(g, team))

CanScore(g, team) == ShotXG(g, team) > 0
CanMiss(g, team)  == ShotXG(g, team) < 10000

\* number of assists of a goal: sample_assists draws 0, 1 or 2
AssistDraws == {0, 1, 2}

\* ------------------------------------------------------------------------
\* Game._handle_event.  d holds the random draws the handler consumes:
\* is_goal, assists, ptype, pick, u
\* ------------------------------------------------------------------------
PenaltyMinutes(ptype) ==
    IF ptype = "minor" THEN 2
    ELSE IF ptype = "double_minor" THEN 4
    ELSE IF ptype = "major" THEN 5
    ELSE 2

\* self.home_score += 1 / self.away_score += 1
\* a goal that counts twice
AddGoalTwice(g, team) == [g EXCEPT !.score[team] = @ + 2]

AddGoal(g, team) == [g EXCEPT !.score[team] = @ + 1]

LogGoal(g, team, assists) ==
    Log(g, g.current_time, "goal", team,
        IF g.penalized_team = Other(team) THEN team \o "_pp_goal"
        ELSE IF g.penalized_team = team THEN Other(team) \o "_pp_against"
        ELSE "even",
        assists)

\* oldest-minor rule: if the opponent was shorthanded, release its oldest minor
ReleaseOldest(g, team) ==
    IF g.penalized_team = Other(team) THEN _end_one_penalty(g, Other(team)) ELSE g

\* pulled_team = None; log goalie_in; _rebuild_on_ice_caches()
GoalieIn(g, side) ==
    _rebuild_on_ice_caches(
        Log([g EXCEPT !.pulled_team = None], g.current_time, "goalie_in", side,
            side \o "_in", 0))

\* a goalie that returns only when the pulling side ties the game
GoalieBackOnTieOnly(g, team) ==
    IF g.pulled_team = team /\ g.score["home"] = g.score["away"]
    THEN GoalieIn(g, team)
    ELSE g

\* a goalie that stays out when the pulling side ties the game
GoalieBackOnConcedeOnly(g, team) ==
    IF g.pulled_team = Other(team) /\ g.penalized_team = None
    THEN GoalieIn(g, Other(team))
    ELSE g

\* the opponent had pulled and conceded into the empty net, or the scoring
\* side had pulled and tied the game
GoalieBack(g, team) ==
    IF g.pulled_team = Other(team) /\ g.penalized_team = None
    THEN GoalieIn(g, Other(team))
    ELSE IF g.pulled_team = team /\ g.score["home"] = g.score["away"]
    THEN GoalieIn(g, team)
    ELSE g

\* a shot that ends the shift whether it scores or not
AfterShotAlwaysChanging(g, team, d) ==
    IF d.is_goal
    THEN _handle_line_change(
             GoalieBack(ReleaseOldest(LogGoal(AddGoal(g, team), team, d.assists), team),
                        team),
             None, None, d.u)
    ELSE _handle_line_change(g, None, None, d.u)

\* g has the shot logged
AfterShot(g, team, d) ==
    IF d.is_goal
    THEN _handle_line_change(
             GoalieBack(ReleaseOldest(LogGoal(AddGoal(g, team), team, d.assists), team),
                        team),
             None, None, d.u)
    ELSE g

HandleShot(g, team, d) == AfterShot(_process_shot(g, team), team, d)

\* g has the penalty entered
LogPenalty(g, team) ==
    Log(g, g.current_time, "penalty", team, team \o "_penalty",
        IF g.penalties[team] # <<>>
        THEN PenaltyMinutes(g.penalties[team][Len(g.penalties[team])].type)
        ELSE 2)

HandlePenalty(g, team, d) ==
    _handle_line_change(LogPenalty(_enter_power_play(g, team, d.ptype, d.pick), team),
                        None, None, d.u)

EventTeam(event_type) ==
    IF event_type \in {"home_shot", "home_penalty"} THEN "home" ELSE "away"

_handle_event(g, event_type, d) ==
    IF event_type \in {"home_shot", "away_shot"}
    THEN HandleShot(g, EventTeam(event_type), d)
    ELSE IF event_type \in {"home_penalty", "away_penalty"}
    THEN HandlePenalty(g, EventTeam(event_type), d)
    ELSE g

\* ------------------------------------------------------------------------
\* Game.simulate_shift
\* ------------------------------------------------------------------------
PeriodRemaining(g) ==
    IF g.current_period # NoPeriod
    THEN Max2(0, g.current_period.end_time - g.current_time)
    ELSE 0

\* a pull evaluated in every period
PullingSideAnyPeriod(g) ==
    IF /\ g.current_period # NoPeriod
       /\ PeriodRemaining(g) <= SEC * PULL_WINDOW_SECONDS
       /\ g.pulled_team = None
       /\ g.score["home"] # g.score["away"]
       /\ g.score["home"] - g.score["away"] <= MAX_PULL_DEFICIT
       /\ g.score["away"] - g.score["home"] <= MAX_PULL_DEFICIT
    THEN IF g.score["home"] < g.score["away"] THEN "home" ELSE "away"
    ELSE None

\* the side that pulls its goalie now, or None: in period 3 with at most 150 s
\* left, nobody pulled yet, the side that trails by at most 2
PullingSide(g) ==
    IF /\ g.current_period # NoPeriod
       /\ g.current_period.period_number = 3
       /\ PeriodRemaining(g) <= SEC * PULL_WINDOW_SECONDS
       /\ g.pulled_team = None
       /\ g.score["home"] # g.score["away"]
       /\ g.score["home"] - g.score["away"] <= MAX_PULL_DEFICIT
       /\ g.score["away"] - g.score["home"] <= MAX_PULL_DEFICIT
    THEN IF g.score["home"] < g.score["away"] THEN "home" ELSE "away"
    ELSE None

GoaliePulled(g, side) ==
    _rebuild_on_ice_caches(
        Log([g EXCEPT !.pulled_team = side], g.current_time, "goalie_pulled", side,
            side \o "_pulled", 0))

\* the late-game pulled-goalie evaluation at the start of a step
PullGoalie(g) == IF PullingSide(g) = None THEN g ELSE GoaliePulled(g, PullingSide(g))

\* future_x = [segment_end of the penalties with segment_end > current_time]
FutureEnds(g, side) ==
    {g.penalties[side][i].segment_end : i \in
        {j \in 1..Len(g.penalties[side]) : g.penalties[side][j].segment_end > g.current_time}}

SetMin(S) == CHOOSE x \in S : \A y \in S : x <= y

PenaltyEndBoundaries(g, side) ==
    IF FutureEnds(g, side) # {}
    THEN << <<"penalty_end_" \o side, SetMin(FutureEnds(g, side)) - g.current_time>> >>
    ELSE <<>>

\* the line-change and penalty boundaries alone
BoundariesNoPeriodEnd(g) ==
    << <<"home_forward", Max2(0, g.fwd_deadline["home"] - g.current_time)>>,
       <<"home_defense", Max2(0, g.def_deadline["home"] - g.current_time)>>,
       <<"away_forward", Max2(0, g.fwd_deadline["away"] - g.current_time)>>,
       <<"away_defense", Max2(0, g.def_deadline["away"] - g.current_time)>> >>
    \o PenaltyEndBoundaries(g, "home") \o PenaltyEndBoundaries(g, "away")

\* the boundaries list, in the order the step builds it
Boundaries(g) ==
    << <<"home_forward", Max2(0, g.fwd_deadline["home"] - g.current_time)>>,
       <<"home_defense", Max2(0, g.def_deadline["home"] - g.current_time)>>,
       <<"away_forward", Max2(0, g.fwd_deadline["away"] - g.current_time)>>,
       <<"away_defense", Max2(0, g.def_deadline["away"] - g.current_time)>>,
       <<"period_end", PeriodRemaining(g)>> >>
    \o PenaltyEndBoundaries(g, "home") \o PenaltyEndBoundaries(g, "away")

\* min(boundaries, key=lambda x: x[1]): the first of the nearest
First(b) ==
    b[CHOOSE i \in 1..Len(b) :
          /\ \A j \in 1..Len(b) : b[i][2] <= b[j][2]
          /\ \A j \in 1..(i - 1) : b[j][2] > b[i][2]]

NearestBoundary(g) == First(Boundaries(g))

TotalRate(g) ==
    calculate_event_rates(g).home_shot + calculate_event_rates(g).away_shot
    + calculate_event_rates(g).home_penalty + calculate_event_rates(g).away_penalty

\* the side and the unit of a line-change boundary
BoundaryTeam(boundary_kind) ==
    IF boundary_kind \in {"home_forward", "home_defense"} THEN "home"
    ELSE IF boundary_kind \in {"away_forward", "away_defense"} THEN "away"
    ELSE None

BoundaryUnit(boundary_kind) ==
    IF boundary_kind \in {"home_forward", "away_forward"} THEN "forward"
    ELSE IF boundary_kind \in {"home_defense", "away_defense"} THEN "defense"
    ELSE None

\* g has current_time at the boundary
Dispatch(g, boundary_kind, d) ==
    IF boundary_kind = "period_end" THEN g
    ELSE _handle_line_change(
             IF boundary_kind = "penalty_end_home" THEN _end_one_penalty(g, "home")
             ELSE IF boundary_kind = "penalty_end_away" THEN _end_one_penalty(g, "away")
             ELSE g,
             BoundaryTeam(boundary_kind), BoundaryUnit(boundary_kind), d.u)

\* current_time += min(boundary_time, max(0, end_time - current_time))
Advance(g, boundary_time) ==
    [g EXCEPT !.current_time =
        @ + (IF g.current_period # NoPeriod
             THEN Min2(boundary_time, Max2(0, g.current_period.end_time - g.current_time))
             ELSE boundary_time)]

\* the boundary branch of the step
HandleBoundary(g, boundary, d) == Dispatch(Advance(g, boundary[2]), boundary[1], d)

\* g is the game after the pulled-goalie evaluation.
\* d.fires: the exponential draw d.delta_event is below the nearest boundary;
\* d.event_choice: the event drawn with weights proportional to the rates
Shift(g, d) ==
    IF TotalRate(g) <= 0 THEN g
    ELSE IF d.fires
    THEN _handle_event([g EXCEPT !.current_time = @ + d.delta_event], d.event_choice, d)
    ELSE HandleBoundary(g, NearestBoundary(g), d)

simulate_shift(g, d) == Shift(PullGoalie(g), d)

\* ------------------------------------------------------------------------
\* Period
\* ------------------------------------------------------------------------
\* Period(period_number, 1200.0, is_overtime) followed by start_period(t)
Period(period_number, is_overtime, t) ==
    [period_number |-> period_number, is_overtime |-> is_overtime,
     start_time |-> t, end_time |-> t + SEC * PERIOD_SECONDS]

is_finished(period, t) == t >= period.end_time

\* ------------------------------------------------------------------------
\* Initial state: a Game as __init__ leaves it
\* ------------------------------------------------------------------------
Init ==
    /\ rosters = [side \in Sides |-> FullRoster]
    /\ team_lines = [side \in Sides |-> FullLines]
    /\ team_pairs = [side \in Sides |-> FullPairs]
    /\ pc = "new"
    /\ current_time = 0
    /\ current_period = NoPeriod
    /\ score = [side \in Sides |-> 0]
    /\ line_id = [side \in Sides |-> 1]
    /\ pair_id = [side \in Sides |-> 1]
    /\ fwd_deadline = [side \in Sides |-> 0]
    /\ def_deadline = [side \in Sides |-> 0]
    /\ penalties = [side \in Sides |-> <<>>]
    /\ unavailable = [side \in Sides |-> {}]
    /\ special_skaters = [side \in Sides |-> NoUnit]
    /\ pulled_team = None
    /\ penalized_team = None
    /\ players = [side \in Sides |-> <<>>]
    /\ events = <<>>
    /\ before = NoEvent
    /\ goal_events = [side \in Sides |-> 0]
    /\ toi = 0
    /\ box = NoContext
    /\ schedule = <<>>
    /\ remaining = <<>>
    /\ weeks = <<>>
    /\ manpower = <<FULL_STRENGTH, FULL_STRENGTH>>
    /\ penalties_drawn = 0
    /\ last_step = [kind |-> "init", team |-> None]

\* the draws of a step; an entry a step does not consume keeps this value
NoDraws ==
    [fires |-> FALSE, delta_event |-> 0, event_choice |-> None, is_goal |-> FALSE,
     assists |-> 0, ptype |-> "minor", pick |-> 1, u |-> [k \in UnitKeys |-> 0]]

\* the draws of the uniforms of one _resample_clocks call
AllClockDraws == {[k \in UnitKeys |-> x] : x \in UniformDraws}

\* ------------------------------------------------------------------------
\* simulate_game: start_shift, then the three regulation periods
\* ------------------------------------------------------------------------
StartGame ==
    /\ pc = "new"
    /\ \E u \in AllClockDraws : Becomes(start_shift(Self, u))
    /\ pc' = "period_start"
    /\ last_step' = [kind |-> "start_shift", team |-> None]
    /\ UNCHANGED <<penalties_drawn, manpower>>

\* self.events and self.events[-1][1] == 'period_end': a period starts on an
\* empty log or right after the period_end that _simulate_period appended
AfterPeriodEnd == events # <<>> /\ events[Len(events)].type = "period_end"

\* _simulate_period, up to its loop
StartPeriod ==
    /\ pc = "period_start"
    /\ LET g == Self
           start_t == g.current_time + (IF AfterPeriodEnd THEN STAGGER ELSE 0)
           period == Period(g.current_period.period_number + 1, FALSE, start_t)
           g1 == [g EXCEPT !.current_period = period]
       IN Becomes(Log(g1, start_t, "period_start", None, "", 0))
    /\ pc' = "period"
    /\ last_step' = [kind |-> "period_start", team |-> None]
    /\ UNCHANGED <<penalties_drawn, manpower>>

\* one pass of the loop `while not period.is_finished(...): simulate_shift()`
\* of _simulate_period or _simulate_overtime, with the draws d; in overtime
\* the pass ends the game if the scores differ after the step
\* where the penalties of a period are followed from: the start of the
\* period, or the start of the late-game window of the third period
WindowStart ==
    IF current_period.period_number = REGULATION_PERIODS
    THEN current_period.end_time - SEC * LateWindow
    ELSE current_period.start_time

Followed ==
    IF penalties_drawn = 0 THEN TRUE ELSE current_time < WindowStart + SEC * Horizon

InLoop ==
    /\ pc \in {"period", "overtime"}
    /\ ~is_finished(current_period, current_time)
    /\ Followed

\* the game as the step sees it after its pulled-goalie evaluation
Pulled == PullGoalie(Self)

\* an overtime that plays on after a goal
StepPlayingOn(d, kind, team) ==
    /\ InLoop
    /\ \E g \in {simulate_shift(Self, d)} :
          /\ Becomes(g)
          /\ pc' = pc
    /\ manpower' = _get_manpower_state(Pulled)
    /\ last_step' = [kind |-> kind, team |-> team]

Step(d, kind, team) ==
    /\ InLoop
    /\ \E g \in {simulate_shift(Self, d)} :
          IF pc = "overtime" /\ g.score["home"] # g.score["away"]
          THEN /\ Becomes(Log(g, g.current_time, "overtime_goal", None, "", 0))
               /\ pc' = "done"
          ELSE /\ Becomes(g)
               /\ pc' = pc
    /\ manpower' = _get_manpower_state(Pulled)
    /\ last_step' = [kind |-> kind, team |-> team]

\* the exponential draw delta (seconds) falls before the nearest boundary of g
Fires(g, delta) == SEC * delta < NearestBoundary(g)[2]

ShotMissed(team) ==
    /\ InLoop
    /\ \E g \in {Pulled} : \E delta \in DeltaDraws :
          /\ Fires(g, delta)
          /\ calculate_event_rates(g)[team \o "_shot"] > 0
          /\ CanMiss(g, team)
          /\ Step([NoDraws EXCEPT !.fires = TRUE, !.delta_event = SEC * delta,
                                  !.event_choice = team \o "_shot", !.is_goal = FALSE],
                  "shot", team)
    /\ UNCHANGED penalties_drawn

GoalBound == IF penalties_drawn = 0 THEN MaxGoals ELSE MaxPowerPlayGoals

Goal(team) ==
    /\ InLoop
    /\ IF pc = "period" THEN goal_events["home"] + goal_events["away"] < GoalBound
       ELSE TRUE
    /\ \E g \in {Pulled} : \E delta \in DeltaDraws, a \in AssistDraws, u \in AllClockDraws :
          /\ Fires(g, delta)
          /\ calculate_event_rates(g)[team \o "_shot"] > 0
          /\ CanScore(g, team)
          /\ Step([NoDraws EXCEPT !.fires = TRUE, !.delta_event = SEC * delta,
                                  !.event_choice = team \o "_shot", !.is_goal = TRUE,
                                  !.assists = a, !.u = u],
                  "goal", team)
    /\ UNCHANGED penalties_drawn

\* the weighted draw of the penalized skater: the first or the last of the pool
PickDraws(g, team) ==
    IF PenaltyPool(g, team) = <<>> THEN {1} ELSE {1, Len(PenaltyPool(g, team))}

\* the penalties a period may draw
PenaltyBound ==
    IF current_period.period_number = REGULATION_PERIODS THEN MaxLatePenalties
    ELSE MaxPenalties

Penalty(team) ==
    /\ InLoop
    /\ penalties_drawn < PenaltyBound
    /\ current_time < WindowStart + SEC * PenaltyWindow
    /\ \E g \in {Pulled} :
       \E delta \in DeltaDraws, ptype \in PenaltyTypes, pick \in PickDraws(g, team),
          u \in AllClockDraws :
          /\ Fires(g, delta)
          /\ calculate_event_rates(g)[team \o "_penalty"] > 0
          /\ Step([NoDraws EXCEPT !.fires = TRUE, !.delta_event = SEC * delta,
                                  !.event_choice = team \o "_penalty",
                                  !.ptype = ptype, !.pick = pick, !.u = u],
                  "penalty", team)
    /\ penalties_drawn' = penalties_drawn + 1

\* the exponential draw is not below the nearest boundary
BoundaryKind == NearestBoundary(Pulled)[1]

LineChangeBoundary ==
    /\ InLoop
    /\ BoundaryKind \in UnitKeys
    /\ \E u \in AllClockDraws : Step([NoDraws EXCEPT !.u = u], "line_change", None)
    /\ UNCHANGED penalties_drawn

PenaltyEndBoundary(team) ==
    /\ InLoop
    /\ BoundaryKind = "penalty_end_" \o team
    /\ \E u \in AllClockDraws : Step([NoDraws EXCEPT !.u = u], "penalty_end", team)
    /\ UNCHANGED penalties_drawn

PeriodEndBoundary ==
    /\ InLoop
    /\ BoundaryKind = "period_end"
    /\ IF pc = "overtime"
       THEN current_period.period_number - REGULATION_PERIODS <= MaxOvertimes
       ELSE TRUE
    /\ Step(NoDraws, "period_end", None)
    /\ UNCHANGED penalties_drawn

\* a game that stops after regulation whatever the score
AfterPeriodNoOvertime(period_number, tied) ==
    IF period_number < REGULATION_PERIODS THEN "period_start" ELSE "done"

\* what simulate_game does after the period with this number
AfterPeriod(period_number, tied) ==
    IF period_number < REGULATION_PERIODS THEN "period_start"
    ELSE IF tied THEN "overtime_start"
    ELSE "done"

\* _simulate_period after its loop, and what simulate_game does next
EndPeriod ==
    /\ pc = "period"
    /\ is_finished(current_period, current_time)
    /\ Becomes(Log(Self, current_time, "period_end", None, "", 0))
    /\ pc' = AfterPeriod(current_period.period_number, score["home"] = score["away"])
    /\ last_step' = [kind |-> "period_end_logged", team |-> None]
    /\ UNCHANGED <<penalties_drawn, manpower>>

\* _simulate_overtime: the head of `while self.home_score == self.away_score`
StartOvertime ==
    /\ pc = "overtime_start"
    /\ score["home"] = score["away"]
    /\ LET g == Self
           overtime == Period(g.current_period.period_number + 1, TRUE, g.current_time)
           g1 == [g EXCEPT !.current_period = overtime]
       IN Becomes(Log(g1, g1.current_time, "overtime_start", None, "", 0))
    /\ pc' = "overtime"
    /\ last_step' = [kind |-> "overtime_start", team |-> None]
    /\ UNCHANGED <<penalties_drawn, manpower>>

\* _simulate_overtime: an overtime period ended without a goal
EndOvertime ==
    /\ pc = "overtime"
    /\ is_finished(current_period, current_time)
    /\ Becomes(Log(Self, current_time, "period_end", None, "", 0))
    /\ pc' = "overtime_start"
    /\ last_step' = [kind |-> "overtime_end_logged", team |-> None]
    /\ UNCHANGED <<penalties_drawn, manpower>>

\* ------------------------------------------------------------------------
\* Specification of a whole game at full strength: shots, goals, line
\* changes, the pulled goalie, the periods and overtime
\* ------------------------------------------------------------------------
Next ==
    \/ StartGame
    \/ StartPeriod
    \/ \E team \in Sides : ShotMissed(team)
    \/ \E team \in Sides : Goal(team)
    \/ LineChangeBoundary
    \/ PeriodEndBoundary
    \/ EndPeriod
    \/ StartOvertime
    \/ EndOvertime

Spec == Init /\ [][Next]_vars

\* ------------------------------------------------------------------------
\* Specification of the power plays of the first period: penalties, their
\* expiry by the clock or by a goal, and the special units.  Shots that miss
\* are left out: they change nothing but the log and the clock.
\* ------------------------------------------------------------------------
PowerPlayNext ==
    \/ StartGame
    \/ StartPeriod
    \/ \E team \in Sides : Goal(team)
    \/ \E team \in Sides : Penalty(team)
    \/ LineChangeBoundary
    \/ \E team \in Sides : PenaltyEndBoundary(team)

PowerPlaySpec == Init /\ [][PowerPlayNext]_vars

\* ------------------------------------------------------------------------
\* Specification of the end of a period: the pulled goalie, with and
\* without a penalty.  The game is taken up LateWindow seconds before the
\* end of a regulation period or of the first overtime period, right after
\* a change of all four units, at each of the scores LateScores (level
\* scores in overtime); the log starts there.
\* ------------------------------------------------------------------------
LateScores == {<<0, 0>>, <<1, 0>>, <<0, 1>>, <<2, 0>>, <<0, 2>>, <<3, 0>>}

\* period n as _simulate_period or _simulate_overtime started it: periods 2
\* and 3 start one stagger after the end of the period before
LatePeriod(n) ==
    Period(n, n > REGULATION_PERIODS,
           SEC * (n - 1) * PERIOD_SECONDS + Min2(n - 1, REGULATION_PERIODS - 1) * STAGGER)

LateNow(n) == LatePeriod(n).end_time - SEC * LateWindow

LateGameInit ==
    /\ rosters = [side \in Sides |-> FullRoster]
    /\ team_lines = [side \in Sides |-> FullLines]
    /\ team_pairs = [side \in Sides |-> FullPairs]
    /\ \E n \in 1..(REGULATION_PERIODS + 1), s \in LateScores :
          /\ n > REGULATION_PERIODS => s[1] = s[2]
          /\ pc = IF n > REGULATION_PERIODS THEN "overtime" ELSE "period"
          /\ current_period = LatePeriod(n)
          /\ current_time = LateNow(n)
          /\ score = [side \in Sides |-> IF side = "home" THEN s[1] ELSE s[2]]
          /\ before = [time |-> LateNow(n), home_score |-> s[1], away_score |-> s[2]]
          /\ fwd_deadline =
                [side \in Sides |-> LateNow(n) + SEC * Uniform(FWD_LOW, FWD_HIGH, 0)]
          /\ def_deadline =
                [side \in Sides |-> LateNow(n) + SEC * Uniform(DEF_LOW, DEF_HIGH, 0)]
    /\ line_id = [side \in Sides |-> 1]
    /\ pair_id = [side \in Sides |-> 1]
    /\ penalties = [side \in Sides |-> <<>>]
    /\ unavailable = [side \in Sides |-> {}]
    /\ special_skaters = [side \in Sides |-> NoUnit]
    /\ pulled_team = None
    /\ penalized_team = None
    /\ players = [side \in Sides |->
                     lines(side)[1] \o pairs(side)[1] \o <<goalies(side)[1]>>]
    /\ events = <<>>
    /\ goal_events = [side \in Sides |-> 0]
    /\ toi = before.time
    /\ box = NoContext
    /\ schedule = <<>>
    /\ remaining = <<>>
    /\ weeks = <<>>
    /\ manpower = <<FULL_STRENGTH, FULL_STRENGTH>>
    /\ penalties_drawn = 0
    /\ last_step = [kind |-> "line_change", team |-> None]

LateGameNext ==
    \/ \E team \in Sides : Goal(team)
    \/ \E team \in Sides : Penalty(team)
    \/ LineChangeBoundary
    \/ \E team \in Sides : PenaltyEndBoundary(team)
    \/ PeriodEndBoundary
    \/ EndPeriod

LateGameSpec == LateGameInit /\ [][LateGameNext]_vars

\* ------------------------------------------------------------------------
\* Specification of a shot that misses, late in the third period: the game
\* of LateGameSpec with the shots that miss, followed up to the first of
\* them, from a level score and from a lead of one goal
\* ------------------------------------------------------------------------
MissedShotInit ==
    /\ LateGameInit
    /\ current_period.period_number = REGULATION_PERIODS
    /\ score["away"] = 0
    /\ score["home"] <= 1

MissedShotNext ==
    /\ last_step.kind # "shot"
    /\ \/ LateGameNext
       \/ \E team \in Sides : ShotMissed(team)

MissedShotSpec == MissedShotInit /\ [][MissedShotNext]_vars

\* ------------------------------------------------------------------------
\* Specification of _get_manpower_state as a function of the fields it
\* reads: the penalty lists, the clock and the pulled side
\* ------------------------------------------------------------------------
MaxRecords == 3

\* late in the third period, whose start carries the two staggers
ManpowerNow == SEC * 3500 + 2 * STAGGER

\* a record ends before, at or after the clock
ManpowerEnds == {ManpowerNow - SEC * 20, ManpowerNow, ManpowerNow + SEC * 40}

ManpowerPenalties(side) ==
    {[i \in 1..n |-> [player |-> roster(side)[i], type |-> "minor",
                      segments_left |-> 1, segment_end |-> ends[i]]] :
        n \in 0..MaxRecords, ends \in [1..MaxRecords -> ManpowerEnds]}

ManpowerInit ==
    /\ rosters = [side \in Sides |-> FullRoster]
    /\ team_lines = [side \in Sides |-> FullLines]
    /\ team_pairs = [side \in Sides |-> FullPairs]
    /\ pc = "call"
    /\ current_time = ManpowerNow
    /\ current_period = Period(REGULATION_PERIODS, FALSE,
                               SEC * 2 * PERIOD_SECONDS + 2 * STAGGER)
    /\ score = [side \in Sides |-> 0]
    /\ line_id = [side \in Sides |-> 1]
    /\ pair_id = [side \in Sides |-> 1]
    /\ fwd_deadline = [side \in Sides |-> ManpowerNow]
    /\ def_deadline = [side \in Sides |-> ManpowerNow]
    /\ \E home \in ManpowerPenalties("home"), away \in ManpowerPenalties("away") :
          /\ penalties = [side \in Sides |-> IF side = "home" THEN home ELSE away]
          /\ unavailable = [side \in Sides |->
                               {r.player : r \in Range(IF side = "home" THEN home ELSE away)}]
    /\ special_skaters = [side \in Sides |-> NoUnit]
    /\ pulled_team \in Sides \cup {None}
    /\ penalized_team = None
    /\ players = [side \in Sides |-> <<>>]
    /\ events = <<>>
    /\ before = NoEvent
    /\ goal_events = [side \in Sides |-> 0]
    /\ toi = 0
    /\ box = NoContext
    /\ schedule = <<>>
    /\ remaining = <<>>
    /\ weeks = <<>>
    /\ manpower = <<FULL_STRENGTH, FULL_STRENGTH>>
    /\ penalties_drawn = 0
    /\ last_step = [kind |-> "init", team |-> None]

GetManpowerState ==
    /\ pc = "call"
    /\ manpower' = _get_manpower_state(Self)
    /\ pc' = "return"
    /\ UNCHANGED <<rosters, team_lines, team_pairs, current_time, current_period, score, line_id, pair_id,
                   fwd_deadline, def_deadline, penalties, unavailable, special_skaters, pulled_team,
                   penalized_team, players, events, before, goal_events, toi, box,
                   penalties_drawn, last_step, schedule, remaining, weeks>>

ManpowerSpec == ManpowerInit /\ [][GetManpowerState]_vars

\* ------------------------------------------------------------------------
\* Specification of _resample_clocks as a function of the fields it reads
\* (the penalty lists, the clock and the pulled side) and of its draws: one
\* call for one unit or for all four, every uniform drawn at the low end or
\* every uniform at the high end of its window
\* ------------------------------------------------------------------------
ResampleClocks ==
    /\ pc = "call"
    /\ \E unit \in UnitKeys \cup {None}, x \in WindowEnds :
          /\ Becomes(_resample_clocks(Self, unit, [k \in UnitKeys |-> x]))
          /\ last_step' = [kind |-> "resample", team |-> unit]
    /\ pc' = "return"
    /\ UNCHANGED <<manpower, penalties_drawn>>

ResampleSpec == ManpowerInit /\ [][ResampleClocks]_vars

\* ------------------------------------------------------------------------
\* Specification of Team.power_play_unit and Team.penalty_kill_unit as
\* functions: one call of either on a drawn roster and a drawn unavailable
\* set, for both teams at once (they differ in the ratings of the players).
\* A roster is FullRoster without its last forwards and its last
\* defensemen; the unavailable set is any set of at most MaxUnavailable of
\* its players, the goalie included.
\* ------------------------------------------------------------------------
DroppedForwards == {0, 3, 5, 6}
DroppedDefensemen == {0, 2, 3, 4}

UnitRosters ==
    {SubSeq(FullRoster, 1, 6 - k) \o SubSeq(FullRoster, 7, 10 - j) \o <<"G1">> :
        k \in DroppedForwards, j \in DroppedDefensemen}

UnitInit ==
    /\ \E r \in UnitRosters :
          /\ rosters = [side \in Sides |-> r]
          /\ \E u \in SUBSET Range(r) :
                /\ Cardinality(u) <= MaxUnavailable
                /\ unavailable = [side \in Sides |-> u]
    /\ team_lines = [side \in Sides |-> FullLines]
    /\ team_pairs = [side \in Sides |-> FullPairs]
    /\ pc = "unit"
    /\ current_time = 0
    /\ current_period = NoPeriod
    /\ score = [side \in Sides |-> 0]
    /\ line_id = [side \in Sides |-> 1]
    /\ pair_id = [side \in Sides |-> 1]
    /\ fwd_deadline = [side \in Sides |-> 0]
    /\ def_deadline = [side \in Sides |-> 0]
    /\ penalties = [side \in Sides |-> <<>>]
    /\ special_skaters = [side \in Sides |-> NoUnit]
    /\ pulled_team = None
    /\ penalized_team = None
    /\ players = [side \in Sides |-> <<>>]
    /\ events = <<>>
    /\ before = NoEvent
    /\ goal_events = [side \in Sides |-> 0]
    /\ toi = 0
    /\ box = NoContext
    /\ schedule = <<>>
    /\ remaining = <<>>
    /\ weeks = <<>>
    /\ manpower = <<FULL_STRENGTH, FULL_STRENGTH>>
    /\ penalties_drawn = 0
    /\ last_step = [kind |-> "init", team |-> None]

\* what a call leaves alone
UnitFrame ==
    UNCHANGED <<rosters, team_lines, team_pairs, current_time, current_period, score, line_id, pair_id,
                fwd_deadline, def_deadline, penalties, unavailable, pulled_team,
                penalized_team, players, events, before, goal_events, toi, box, manpower,
                penalties_drawn, schedule, remaining, weeks>>

PowerPlayUnit ==
    /\ pc = "unit"
    /\ special_skaters' =
          [side \in Sides |-> Unit(power_play_unit(side, unavailable[side]))]
    /\ pc' = "power_play_unit"
    /\ last_step' = [kind |-> "power_play_unit", team |-> None]
    /\ UnitFrame

\* num_skaters keeps its default, 4
PenaltyKillUnit ==
    /\ pc = "unit"
    /\ special_skaters' =
          [side \in Sides |-> Unit(penalty_kill_unit(side, unavailable[side], 4))]
    /\ pc' = "penalty_kill_unit"
    /\ last_step' = [kind |-> "penalty_kill_unit", team |-> None]
    /\ UnitFrame

UnitNext == PowerPlayUnit \/ PenaltyKillUnit

UnitSpec == UnitInit /\ [][UnitNext]_vars

\* ------------------------------------------------------------------------
\* League.build_weeks: the schedule is packed into weeks, one pass of the
\* while loop for each week
\* ------------------------------------------------------------------------
\* the teams of the league, and the longest schedule drawn
LeagueTeams == {"A", "B", "C", "D"}
MaxGames == 3

\* a game is a tuple (home, away)
Pairings == LeagueTeams \X LeagueTeams
Schedules == UNION {[1..n -> Pairings] : n \in 0..MaxGames}

\* a pass that looks for the home team alone among the teams used
RECURSIVE PackWeekHomeOnly(_, _, _, _)
PackWeekHomeOnly(rem, week, used, nxt) ==
    IF rem = <<>> THEN [week |-> week, nxt |-> nxt]
    ELSE IF Head(rem)[1] \in used
    THEN PackWeekHomeOnly(Tail(rem), week, used, Append(nxt, Head(rem)))
    ELSE PackWeekHomeOnly(Tail(rem), Append(week, Head(rem)),
                          used \cup {Head(rem)[1], Head(rem)[2]}, nxt)

\* for home, away in remaining: a game with a team already used goes to
\* nxt, any other game joins the week and its teams are used
RECURSIVE PackWeek(_, _, _, _)
PackWeek(rem, week, used, nxt) ==
    IF rem = <<>> THEN [week |-> week, nxt |-> nxt]
    ELSE IF Head(rem)[1] \in used \/ Head(rem)[2] \in used
    THEN PackWeek(Tail(rem), week, used, Append(nxt, Head(rem)))
    ELSE PackWeek(Tail(rem), Append(week, Head(rem)),
                  used \cup {Head(rem)[1], Head(rem)[2]}, nxt)

\* a call of build_weeks with a schedule, on a league that plays no game
BuildWeeksInit ==
    /\ schedule \in Schedules
    /\ remaining = schedule
    /\ weeks = <<>>
    /\ pc = "build_weeks"
    /\ rosters = [side \in Sides |-> FullRoster]
    /\ team_lines = [side \in Sides |-> FullLines]
    /\ team_pairs = [side \in Sides |-> FullPairs]
    /\ current_time = 0
    /\ current_period = NoPeriod
    /\ score = [side \in Sides |-> 0]
    /\ line_id = [side \in Sides |-> 1]
    /\ pair_id = [side \in Sides |-> 1]
    /\ fwd_deadline = [side \in Sides |-> 0]
    /\ def_deadline = [side \in Sides |-> 0]
    /\ penalties = [side \in Sides |-> <<>>]
    /\ unavailable = [side \in Sides |-> {}]
    /\ special_skaters = [side \in Sides |-> NoUnit]
    /\ pulled_team = None
    /\ penalized_team = None
    /\ players = [side \in Sides |-> <<>>]
    /\ events = <<>>
    /\ before = NoEvent
    /\ goal_events = [side \in Sides |-> 0]
    /\ toi = 0
    /\ box = NoContext
    /\ manpower = <<FULL_STRENGTH, FULL_STRENGTH>>
    /\ penalties_drawn = 0
    /\ last_step = [kind |-> "init", team |-> None]

\* what build_weeks leaves alone: the Game
LeagueFrame ==
    UNCHANGED <<rosters, team_lines, team_pairs, current_time, current_period, score,
                line_id, pair_id, fwd_deadline, def_deadline, penalties, unavailable,
                special_skaters, pulled_team, penalized_team, players, events, before,
                goal_events, toi, box, manpower, penalties_drawn, schedule>>

\* one pass of `while remaining`
PackNextWeek ==
    /\ pc = "build_weeks"
    /\ remaining # <<>>
    /\ \E r \in {PackWeek(remaining, <<>>, {}, <<>>)} :
          /\ weeks' = Append(weeks, r.week)
          /\ remaining' = r.nxt
    /\ pc' = pc
    /\ last_step' = [kind |-> "week", team |-> None]
    /\ LeagueFrame

\* return weeks
ReturnWeeks ==
    /\ pc = "build_weeks"
    /\ remaining = <<>>
    /\ pc' = "weeks_built"
    /\ last_step' = [kind |-> "return", team |-> None]
    /\ UNCHANGED <<remaining, weeks>>
    /\ LeagueFrame

BuildWeeksNext ==
    \/ PackNextWeek
    \/ ReturnWeeks

\* the loop runs on by itself until it returns
BuildWeeksSpec == BuildWeeksInit /\ [][BuildWeeksNext]_vars /\ WF_vars(BuildWeeksNext)

\* ------------------------------------------------------------------------
\* Properties of a game at full strength
\* ------------------------------------------------------------------------
Tied == score["home"] = score["away"]

\* C1: when simulate_game returns, current_time is at least 3600 s and the
\* scores differ; a game tied after the third period goes to sudden-death
\* overtime periods of 1200 s that go on while the scores are level, and a
\* game not tied after the third period plays no overtime.
GameEndContract ==
    /\ pc = "done" => current_time >= SEC * 3600 /\ ~Tied
    /\ current_period.is_overtime =>
          /\ current_period.end_time - current_period.start_time = SEC * 1200
          /\ current_period.start_time >= SEC * 3600
          /\ current_period.period_number > 3
    /\ pc \in {"overtime_start", "overtime"} => Tied
    /\ (last_step.kind = "period_end_logged" /\ current_period.period_number = 3) =>
          pc = (IF Tied THEN "overtime_start" ELSE "done")
    /\ (pc = "done" /\ last_step.kind = "period_end_logged") =>
          current_period.period_number = 3 /\ ~current_period.is_overtime
    /\ last_step.kind = "overtime_end_logged" => pc = "overtime_start" /\ Tied

\* a game decided by a goal in its second overtime period
DecidedInSecondOvertime ==
    /\ pc = "done"
    /\ current_period.is_overtime
    /\ current_period.period_number = 5
    /\ ~Tied

\* C2: in overtime no reachable state makes a goal impossible for both
\* sides, so that under fairness of the goal draws every game ends.
OvertimeGoalPossible ==
    (pc = "overtime" /\ InLoop) => \E team \in Sides : CanScore(Pulled, team)

\* C3: the timestamps of the event log never decrease, across a period
\* change as well: period_end, period_start, first event of the new period.
LogTimeMonotone ==
    /\ events # <<>> => before.time <= events[1].time
    /\ \A i \in 1..(Len(events) - 1) : events[i].time <= events[i + 1].time

\* the score snapshot logged just before the i-th event of the last step
SnapshotBefore(i) == IF i = 1 THEN before ELSE events[i - 1]

ActiveRecords(side) ==
    {i \in 1..Len(penalties[side]) : penalties[side][i].segment_end > current_time}

PenaltySkaters(side) ==
    IF 5 - Cardinality(ActiveRecords(side)) > 3
    THEN 5 - Cardinality(ActiveRecords(side))
    ELSE 3

\* C5: each component of the manpower state is 3, 4, 5 or 6: max(3, 5 - the
\* side's active penalties), or 6 for the side whose goalie is pulled; the
\* state is never (6, 6).
ManpowerContract ==
    pc = "return" =>
       /\ manpower[1] \in {3, 4, 5, 6}
       /\ manpower[2] \in {3, 4, 5, 6}
       /\ manpower[1] = IF pulled_team = "home" THEN 6 ELSE PenaltySkaters("home")
       /\ manpower[2] = IF pulled_team = "away" THEN 6 ELSE PenaltySkaters("away")
       /\ manpower # <<6, 6>>

\* the home goalie pulled against a side with three active penalties
SixOnThree ==
    /\ pc = "return"
    /\ pulled_team = "home"
    /\ Cardinality(ActiveRecords("away")) = 3
    /\ manpower = <<6, 3>>

\* ------------------------------------------------------------------------
\* Properties of the penalty records.  A step is named by last_step'; the
\* unprimed penalties are the records before the step, current_time' is the
\* time of the goal or of the boundary.
\* ------------------------------------------------------------------------
RemoveAt(s, i) == SubSeq(s, 1, i - 1) \o SubSeq(s, i + 1, Len(s))

\* the records of side whose segment ends after time t
ActiveAt(side, t) ==
    {i \in 1..Len(penalties[side]) : penalties[side][i].segment_end > t}

\* the first of the records idx of side with the smallest segment_end
Earliest(side, idx) ==
    CHOOSE i \in idx :
       \A j \in idx :
          \/ penalties[side][i].segment_end < penalties[side][j].segment_end
          \/ /\ penalties[side][i].segment_end = penalties[side][j].segment_end
             /\ i <= j

\* the penalty-derived skaters of side at time t
SkatersAt(side, t) ==
    IF 5 - Cardinality(ActiveAt(side, t)) > 3
    THEN 5 - Cardinality(ActiveAt(side, t))
    ELSE 3

\* the record r of side with its first of two segments served at time t
SecondSegment(r, t) == [r EXCEPT !.segments_left = 1, !.segment_end = t + SEC * 120]

\* the records of side after record i expired on the clock at time t
NaturallyExpired(side, i, t) ==
    IF penalties[side][i].type = "double_minor" /\ penalties[side][i].segments_left = 2
    THEN [penalties[side] EXCEPT ![i] = SecondSegment(@, t)]
    ELSE RemoveAt(penalties[side], i)

\* the records of side after a power-play goal at time t forced record i
ForcedExpired(side, i, t) ==
    IF penalties[side][i].type = "major" THEN penalties[side]
    ELSE NaturallyExpired(side, i, t)

\* the record r is no longer served by side after the step
Gone(side, r) ==
    /\ \A j \in 1..Len(penalties'[side]) : penalties'[side][j] # r
    /\ r.player # None => r.player \notin unavailable'[side]

\* the step is a goal of team
GoalBy(team) ==
    /\ last_step' = [kind |-> "goal", team |-> team]
    /\ score'[team] = score[team] + 1

\* the step is a goal of team against a shorthanded opponent
PowerPlayGoalBy(team) ==
    /\ GoalBy(team)
    /\ SkatersAt(Other(team), current_time') < SkatersAt(team, current_time')

\* the step dispatches the natural penalty-expiry boundary of side
NaturalExpiryOf(side) == last_step' = [kind |-> "penalty_end", team |-> side]

\* the goal step of the opponent of side called _end_one_penalty for side
ForcedExpiryOf(side) ==
    /\ GoalBy(Other(side))
    /\ \E k \in 1..Len(events') : events'[k].type = "pp_end"

\* the step is a penalty of side that appended a record
PenaltyOf(side) ==
    /\ last_step' = [kind |-> "penalty", team |-> side]
    /\ Len(penalties'[side]) = Len(penalties[side]) + 1

Created(side) == penalties'[side][Len(penalties'[side])]

\* C6: oldest-minor rule.  A power-play goal against a side with two active
\* minors ending at t1 < t2 removes exactly the t1 record and releases only
\* its player; the t2 record stays as it is.  No goal removes or shortens a
\* major of the conceding side.
OldestMinorRule ==
    [][\A team \in Sides :
          GoalBy(team) =>
             /\ ( /\ PowerPlayGoalBy(team)
                  /\ Cardinality(ActiveAt(Other(team), current_time')) = 2
                  /\ \A i \in ActiveAt(Other(team), current_time') :
                        penalties[Other(team)][i].type = "minor"
                  /\ \E i, j \in ActiveAt(Other(team), current_time') :
                        penalties[Other(team)][i].segment_end
                           < penalties[Other(team)][j].segment_end )
                => /\ penalties'[Other(team)] =
                         RemoveAt(penalties[Other(team)],
                                  Earliest(Other(team),
                                           ActiveAt(Other(team), current_time')))
                   /\ unavailable'[Other(team)] =
                         unavailable[Other(team)]
                            \ {penalties[Other(team)]
                                  [Earliest(Other(team),
                                            ActiveAt(Other(team), current_time'))].player}
             /\ \A i \in 1..Len(penalties[Other(team)]) :
                   penalties[Other(team)][i].type = "major"
                      => \E j \in 1..Len(penalties'[Other(team)]) :
                            penalties'[Other(team)][j] = penalties[Other(team)][i]
      ]_vars

\* C7: a goal scored while the opponent has strictly fewer penalty-derived
\* skaters forces exactly one expiry on the opponent at the time of the
\* goal, on its earliest active record, unless that record is a major; the
\* first power play of the game is no exception.
ForcedExpiryOnPowerPlayGoal ==
    [][\A team \in Sides :
          PowerPlayGoalBy(team) =>
             penalties'[Other(team)] =
                ForcedExpired(Other(team),
                              Earliest(Other(team),
                                       ActiveAt(Other(team), current_time')),
                              current_time')
      ]_vars

\* C8: a natural penalty-expiry boundary of a side advances the clock to the
\* smallest pending segment_end of the side and expires the record that
\* ends there; no other record of the side is removed or modified.
NaturalExpiryRule ==
    [][\A side \in Sides :
          NaturalExpiryOf(side) =>
             /\ current_time' =
                   penalties[side][Earliest(side, ActiveAt(side, current_time))].segment_end
             /\ penalties'[side] =
                   NaturallyExpired(side, Earliest(side, ActiveAt(side, current_time)),
                                    current_time')
      ]_vars

\* C9: a minor is created with one segment that ends 120 s after the
\* penalty; after one expiry event for it, on the clock or forced by a
\* power-play goal, its record is off the list and its player is released.
MinorLifecycle ==
    [][\A side \in Sides :
          /\ (PenaltyOf(side) /\ Created(side).type = "minor")
                => /\ Created(side).segments_left = 1
                   /\ Created(side).segment_end = current_time' + SEC * 120
          /\ ( /\ NaturalExpiryOf(side)
               /\ penalties[side][Earliest(side, ActiveAt(side, current_time))].type
                     = "minor" )
                => Gone(side, penalties[side][Earliest(side, ActiveAt(side, current_time))])
          /\ ( /\ ForcedExpiryOf(side)
               /\ ActiveAt(side, current_time') # {}
               /\ penalties[side][Earliest(side, ActiveAt(side, current_time'))].type
                     = "minor" )
                => Gone(side, penalties[side][Earliest(side, ActiveAt(side, current_time'))])
      ]_vars

\* C10: the first expiry of a double-minor, on the clock or forced by a
\* power-play goal, keeps the record: segments_left goes from 2 to 1 and
\* segment_end is set 120 s after the expiry, 240 s shorthanded in all when
\* no goal is scored.  A major ends 300 s after the penalty and its record
\* is on the list, unchanged, until then.
DoubleMinorAndMajor ==
    [][\A side \in Sides :
          /\ (PenaltyOf(side) /\ Created(side).type = "double_minor")
                => /\ Created(side).segments_left = 2
                   /\ Created(side).segment_end = current_time' + SEC * 120
          /\ (PenaltyOf(side) /\ Created(side).type = "major")
                => Created(side).segment_end = current_time' + SEC * 300
          /\ \A i \in 1..Len(penalties[side]) :
                ( /\ NaturalExpiryOf(side)
                  /\ i = Earliest(side, ActiveAt(side, current_time))
                  /\ penalties[side][i].type = "double_minor"
                  /\ penalties[side][i].segments_left = 2 )
                   => /\ Len(penalties'[side]) = Len(penalties[side])
                      /\ penalties'[side][i] = SecondSegment(penalties[side][i], current_time')
                      /\ SkatersAt(side, current_time)' < 5
          /\ \A i \in 1..Len(penalties[side]) :
                ( /\ ForcedExpiryOf(side)
                  /\ ActiveAt(side, current_time') # {}
                  /\ i = Earliest(side, ActiveAt(side, current_time'))
                  /\ penalties[side][i].type = "double_minor"
                  /\ penalties[side][i].segments_left = 2 )
                   => /\ Len(penalties'[side]) = Len(penalties[side])
                      /\ penalties'[side][i] = SecondSegment(penalties[side][i], current_time')
          /\ \A i \in 1..Len(penalties[side]) :
                (penalties[side][i].type = "major"
                   /\ current_time' < penalties[side][i].segment_end)
                   => \E j \in 1..Len(penalties'[side]) :
                         penalties'[side][j] = penalties[side][i]
      ]_vars

\* ------------------------------------------------------------------------
\* Properties of the pulled goalie
\* ------------------------------------------------------------------------
\* the step is one pass of the shift loop
ShiftStep ==
    last_step'.kind \in {"shot", "goal", "penalty", "line_change", "penalty_end",
                         "period_end"}

\* the side behind before the step, None when the scores are level
Trailing ==
    IF score["home"] < score["away"] THEN "home"
    ELSE IF score["away"] < score["home"] THEN "away"
    ELSE None

Deficit ==
    IF score["home"] < score["away"] THEN score["away"] - score["home"]
    ELSE score["home"] - score["away"]

\* the step starts in the third period with at most 150 s left, nobody
\* pulled and a side behind by 1 or 2
PullDue ==
    /\ current_period.period_number = 3
    /\ ~current_period.is_overtime
    /\ current_period.end_time - current_time <= SEC * 150
    /\ pulled_team = None
    /\ Deficit \in {1, 2}

\* the events of the step with this type
Logged(type) == {k \in 1..Len(events') : events'[k].type = type}

\* the step opens by pulling the goalie of side, at the time it starts
PullLogged(side) ==
    /\ Logged("goalie_pulled") = {1}
    /\ events'[1].team = side
    /\ events'[1].time = current_time

PulledInStep ==
    IF pulled_team # None THEN pulled_team
    ELSE IF Logged("goalie_pulled") # {} THEN events'[1].team
    ELSE None

\* a side has an active penalty at time t
Shorthanded(t) == \E side \in Sides : ActiveAt(side, t) # {}

\* a goalie_in event of side is logged at the end time of the step
GoalieInLogged(side) ==
    \E k \in Logged("goalie_in") :
       /\ events'[k].team = side
       /\ events'[k].time = current_time'

GoalieReturnRule ==
    [][ /\ Logged("goalie_in") # {} =>
              /\ PulledInStep # None
              /\ GoalieInLogged(PulledInStep)
              /\ pulled_team' = None
        /\ PulledInStep # None =>
              ( Logged("goalie_in") # {}
                  <=> \/ /\ GoalBy(PulledInStep)
                         /\ score'["home"] = score'["away"]
                      \/ /\ GoalBy(Other(PulledInStep))
                         /\ ~Shorthanded(current_time') )
      ]_vars

Appended(types) == \E k \in 1..Len(events) : events[k].type \in types

HoldsPowerPlayUnit(side) ==
    special_skaters[side] = Unit(power_play_unit(side, unavailable[side]))

HoldsPenaltyKillUnit(side) ==
    special_skaters[side] =
        Unit(penalty_kill_unit(side, unavailable[side], Skaters(Self, side)))

\* C16: after a penalty was entered or ended, the side with more skaters
\* (by the penalties) holds a power-play unit and the side with fewer a
\* penalty-kill unit; at 4v4 or 3v3 both hold penalty-kill units and
\* neither a power-play unit.
UnitsMatchManpower ==
    Appended({"penalty", "pp_end"}) =>
        \A side \in Sides :
           /\ Skaters(Self, side) > Skaters(Self, Other(side)) =>
                 /\ HoldsPowerPlayUnit(side)
                 /\ HoldsPenaltyKillUnit(Other(side))
           /\ (Skaters(Self, side) = Skaters(Self, Other(side))
                 /\ Skaters(Self, side) < FULL_STRENGTH) =>
                 /\ HoldsPenaltyKillUnit(side)
                 /\ ~HoldsPowerPlayUnit(side)

\* C17: a special unit that is set for a side has as many skaters as the
\* penalties leave the side: max(3, 5 - its active penalties).
UnitSizeContract ==
    \A side \in Sides :
       ~special_skaters[side].is_none =>
           Len(special_skaters[side].unit) = PenaltySkaters(side)

\* ------------------------------------------------------------------------
\* Properties of the unit selection
\* ------------------------------------------------------------------------
\* number of players of side at position pos that are not unavailable
Available(side, pos) ==
    Len(SelectSeq(roster(side),
                  LAMBDA n : position(side, n) = pos /\ n \notin unavailable[side]))

UnitDefensemen(side) == DefCount(side, special_skaters[side].unit)

\* forwards enough to fill a unit of five beside its most defensemen
EnoughForPowerPlay(side) == Available(side, "D") >= 1 /\ Available(side, "F") >= 3

EnoughForPenaltyKill(side) == Available(side, "D") >= 2 /\ Available(side, "F") >= 2

UnitWellFormed ==
    \A side \in Sides :
       pc \in {"power_play_unit", "penalty_kill_unit"} =>
          /\ ~special_skaters[side].is_none
          /\ Range(special_skaters[side].unit) \subseteq Range(roster(side))
          /\ \A n \in Range(special_skaters[side].unit) :
                position(side, n) # "G" /\ n \notin unavailable[side]
          /\ Cardinality(Range(special_skaters[side].unit))
                = Len(special_skaters[side].unit)
          /\ Len(special_skaters[side].unit) <= TargetSize(side, unavailable[side])

\* a power-play unit of five forwards from a roster without defensemen
ForwardsOnlyUnit ==
    /\ pc = "power_play_unit"
    /\ defensemen("home") = <<>>
    /\ unavailable["home"] = {}
    /\ Len(special_skaters["home"].unit) = 5
    /\ UnitDefensemen("home") = 0

\* every skater of the roster is unavailable and the unit is empty
NobodyAvailable ==
    /\ pc = "penalty_kill_unit"
    /\ forwards("home") # <<>>
    /\ AvailableSkaters("home", unavailable["home"]) = <<>>
    /\ special_skaters["home"].unit = <<>>

\* ------------------------------------------------------------------------
\* The combined rate of the four stochastic events
\* ------------------------------------------------------------------------
\* in a period the combined rate of the step is positive: the shot rates are
\* at least TINY and the penalty rates at least PEN_BASE * PEN_CLAMP_LO
TotalRatePositive == pc \in {"period", "overtime"} => TotalRate(Pulled) > 0

\* ------------------------------------------------------------------------
\* Properties of the clock of a step
\* ------------------------------------------------------------------------
\* the step handled a stochastic event
EventStep == last_step'.kind \in {"shot", "goal", "penalty"}

\* the step took the boundary branch
BoundaryStep == last_step'.kind \in {"line_change", "penalty_end", "period_end"}

\* C21: current_time never exceeds the end_time of the current period; a
\* stochastic event fires strictly before the nearest boundary, hence
\* strictly before the end of the period, and a boundary step advances the
\* clock by at most the time that was left in the period.
TimeWithinPeriod ==
    [][ /\ current_period' # NoPeriod => current_time' <= current_period'.end_time
        /\ EventStep =>
              /\ current_time' < current_time + NearestBoundary(Pulled)[2]
              /\ current_time' < current_period.end_time
        /\ BoundaryStep =>
              /\ current_time' >= current_time
              /\ current_time' - current_time <= current_period.end_time - current_time
      ]_vars

\* the newest event fell 25 s before the end of a period, and the boundary
\* step after it ran the period out
LateEventThenPeriodEnd ==
    /\ last_step.kind = "period_end"
    /\ current_time = current_period.end_time
    /\ before.time < current_time
    /\ current_period.end_time - before.time <= SEC * 25

MissedShotFrame ==
    [][ last_step'.kind = "shot" =>
          /\ score' = score
          /\ penalties' = penalties
          /\ unavailable' = unavailable
          /\ special_skaters' = special_skaters
          /\ penalized_team' = penalized_team
          /\ line_id' = line_id
          /\ pair_id' = pair_id
          /\ fwd_deadline' = fwd_deadline
          /\ def_deadline' = def_deadline
          /\ pulled_team' = (IF PullDue THEN Trailing ELSE pulled_team)
          /\ current_time' >= current_time
          /\ Logged("shot") = {Len(events')}
          /\ events'[Len(events')].time = current_time'
          /\ events'[Len(events')].team = last_step'.team
          /\ Len(events') = (IF PullDue THEN 2 ELSE 1)
          /\ PullDue => PullLogged(Trailing)
      ]_vars

\* a shot missed 25 s after the last event while a penalty is being served
\* and a goalie is out of its net
MissedOnSpecialTeams ==
    /\ last_step.kind = "shot"
    /\ current_time = before.time + SEC * 25
    /\ \E side \in Sides : penalties[side] # <<>> /\ Truthy(special_skaters[side])
    /\ pulled_team \in Sides

\* ------------------------------------------------------------------------
\* Properties of the line changes
\* ------------------------------------------------------------------------
\* the pointer after id in a rotation of n lines or pairs
NextId(id, n) == (id % n) + 1

\* the step changed both units of both teams: every pointer advanced by one
\* cyclically, every deadline was drawn from the time the step ended at,
\* and one change of both teams was logged at that time
FullChange ==
    /\ \A side \in Sides :
          /\ line_id'[side] = NextId(line_id[side], Len(lines(side)))
          /\ pair_id'[side] = NextId(pair_id[side], Len(pairs(side)))
          /\ fwd_deadline'[side] - current_time' \in (SEC * 30)..(SEC * 70)
          /\ def_deadline'[side] - current_time' \in (SEC * 40)..(SEC * 120)
    /\ Cardinality(Logged("line_change")) = 1
    /\ \A k \in Logged("line_change") :
          events'[k].team = None /\ events'[k].time = current_time'

\* C24: every goal, every penalty and every natural penalty expiry is
\* followed in the same step by a change of all four units; every rotation
\* pointer stays within 1..number of lines (or pairs) of its team.
FullChangeRule ==
    [][ /\ last_step'.kind \in {"goal", "penalty", "penalty_end"} => FullChange
        /\ \A side \in Sides :
              /\ line_id'[side] \in 1..Len(lines(side))
              /\ pair_id'[side] \in 1..Len(pairs(side))
      ]_vars

\* a natural expiry that wrapped the home pointers from the last line and
\* the last pair to the first
ExpiryWrappedPointers ==
    /\ last_step.kind = "penalty_end"
    /\ line_id["home"] = 1
    /\ pair_id["home"] = 1
    /\ fwd_deadline["home"] > current_time

\* C25: a line-change boundary of one unit (home or away, forward or
\* defense) comes at the deadline of that unit, advances the pointer of that
\* unit of that team alone and resamples the deadline of that unit alone; the
\* other three pointers and deadlines, the score and the penalty lists are
\* unchanged, and pulled_team is as the pulled-goalie evaluation that opens
\* the step left it.
UnitChangeFrame ==
    [][ last_step'.kind = "line_change" =>
          \E team \in Sides, unit \in {"forward", "defense"} :
             /\ Logged("line_change") = {Len(events')}
             /\ events'[Len(events')].team = team
             /\ events'[Len(events')].unit = unit
             /\ events'[Len(events')].time = current_time'
             /\ current_time' =
                   (IF unit = "forward" THEN fwd_deadline[team] ELSE def_deadline[team])
             /\ line_id' = (IF unit = "forward"
                            THEN [line_id EXCEPT ![team] = NextId(@, Len(lines(team)))]
                            ELSE line_id)
             /\ pair_id' = (IF unit = "defense"
                            THEN [pair_id EXCEPT ![team] = NextId(@, Len(pairs(team)))]
                            ELSE pair_id)
             /\ \A side \in Sides :
                   /\ (side # team \/ unit # "forward") =>
                         fwd_deadline'[side] = fwd_deadline[side]
                   /\ (side # team \/ unit # "defense") =>
                         def_deadline'[side] = def_deadline[side]
             /\ unit = "forward" =>
                   fwd_deadline'[team] - current_time' \in (SEC * 30)..(SEC * 70)
             /\ unit = "defense" =>
                   def_deadline'[team] - current_time' \in (SEC * 40)..(SEC * 120)
             /\ score' = score
             /\ penalties' = penalties
             /\ unavailable' = unavailable
             /\ special_skaters' = special_skaters
             /\ pulled_team' = (IF PullDue THEN Trailing ELSE pulled_team)
      ]_vars

\* the home pair changed alone while a penalty was being served
HomePairChangedAlone ==
    /\ last_step.kind = "line_change"
    /\ events[Len(events)].team = "home"
    /\ events[Len(events)].unit = "defense"
    /\ pair_id["home"] # pair_id["away"]
    /\ def_deadline["home"] > def_deadline["away"]
    /\ \E side \in Sides : penalties[side] # <<>>

\* ------------------------------------------------------------------------
\* Properties of the line-change windows
\* ------------------------------------------------------------------------
\* no penalty is active on either side and no goalie is pulled, after the step
QuietAfter ==
    /\ pulled_team' = None
    /\ \A side \in Sides : \A i \in 1..Len(penalties'[side]) :
          penalties'[side][i].segment_end <= current_time'

\* the windows of a deadline drawn after the step, in seconds from its time
ForwardWindow == IF QuietAfter THEN (SEC * 30)..(SEC * 60) ELSE (SEC * 50)..(SEC * 70)
DefenseWindow == IF QuietAfter THEN (SEC * 40)..(SEC * 60) ELSE (SEC * 100)..(SEC * 120)

\* the unit keys a call of _resample_clocks(unit) draws
Resampled(unit) == IF unit = None THEN UnitKeys ELSE {unit}

\* C26: a deadline resampled at time t lies in [t+30, t+60] (forward) or
\* [t+40, t+60] (defense) when no penalty is active and no goalie is pulled,
\* and in [t+50, t+70] or [t+100, t+120] when a penalty is active or a
\* goalie is pulled; a deadline that is not resampled stays.
ResampleWindows ==
    [][ last_step'.kind = "resample" =>
          \A side \in Sides :
             /\ IF side \o "_forward" \in Resampled(last_step'.team)
                THEN fwd_deadline'[side] - current_time' \in ForwardWindow
                ELSE fwd_deadline'[side] = fwd_deadline[side]
             /\ IF side \o "_defense" \in Resampled(last_step'.team)
                THEN def_deadline'[side] - current_time' \in DefenseWindow
                ELSE def_deadline'[side] = def_deadline[side]
      ]_vars

\* the longest defense shift, drawn with the goalie out and no penalty active
LongestDefenseShiftPulled ==
    /\ last_step.kind = "resample"
    /\ pulled_team \in Sides
    /\ \A side \in Sides : ActiveAt(side, current_time) = {}
    /\ def_deadline["home"] = current_time + SEC * 120
    /\ fwd_deadline["home"] = current_time + SEC * 70

\* the same windows in a game: the deadlines a goal, a penalty, an expiry or
\* a unit change draws
ResampleWindowsInGame ==
    [][ /\ last_step'.kind \in {"goal", "penalty", "penalty_end"} =>
              \A side \in Sides :
                 /\ fwd_deadline'[side] - current_time' \in ForwardWindow
                 /\ def_deadline'[side] - current_time' \in DefenseWindow
        /\ last_step'.kind = "line_change" =>
              \A side \in Sides :
                 /\ fwd_deadline'[side] # fwd_deadline[side] =>
                       fwd_deadline'[side] - current_time' \in ForwardWindow
                 /\ def_deadline'[side] # def_deadline[side] =>
                       def_deadline'[side] - current_time' \in DefenseWindow
      ]_vars

\* ------------------------------------------------------------------------
\* Properties of the on-ice caches
\* ------------------------------------------------------------------------
\* C27: whenever the shift loop is about to compute the rates, after the
\* pulled-goalie evaluation, the cached on-ice lists are the lists that
\* _rebuild_on_ice_caches computes from the rotation pointers, the special
\* units and pulled_team as they are then.  (The cached sums are assigned
\* with the lists, from the lists, and nowhere else.)
CacheCoherence ==
    pc \in {"period", "overtime"} =>
        Pulled.players = _rebuild_on_ice_caches(Pulled).players

\* the cache holds the six home skaters and no goalie, the second line on
\* the ice, while the away side has a special unit on the ice
CachedExtraAttacker ==
    /\ pc = "period"
    /\ pulled_team = "home"
    /\ line_id["home"] = 2
    /\ Len(players["home"]) = PULLED_SKATERS
    /\ goalies("home")[1] \notin Range(players["home"])
    /\ Truthy(special_skaters["away"])
    /\ players["away"] = Append(special_skaters["away"].unit, goalies("away")[1])

\* ------------------------------------------------------------------------
\* Properties of the replay of the log
\* ------------------------------------------------------------------------
\* the rotation pointers of the Game
Pointers == [line_id |-> line_id, pair_id |-> pair_id]

\* C28: the shadow pointers that generate_box_scores replays from the log
\* are the rotation pointers of the Game: both start at line 1 and pair 1;
\* replaying the first k events of a step from the pointers the step
\* started with gives the pointers the Game had when it appended the k-th,
\* and replaying all of them gives the pointers the step ends with.
ReplayMatchesRotation ==
    [][ /\ pc = "new" =>
              Pointers = [line_id |-> [side \in Sides |-> 1],
                          pair_id |-> [side \in Sides |-> 1]]
        /\ \A k \in 1..Len(events') :
              Replay(Pointers, SubSeq(events', 1, k))
                 = [line_id |-> events'[k].line_id, pair_id |-> events'[k].pair_id]
        /\ Replay(Pointers, events') = Pointers'
      ]_vars

\* the home line changed alone after changes of both teams, and the log
\* says so
HomeLineReplayed ==
    /\ last_step.kind = "line_change"
    /\ events[Len(events)].team = "home"
    /\ events[Len(events)].unit = "forward"
    /\ events[Len(events)].line_id = line_id
    /\ line_id["home"] = 1
    /\ line_id["away"] = 2
    /\ pair_id["home"] = 2
    /\ penalties_drawn > 0

\* the side with more skaters (None: even manpower), lines 1239-1253
Advantage ==
    IF Skaters(Self, "home") > Skaters(Self, "away") THEN "home"
    ELSE IF Skaters(Self, "away") > Skaters(Self, "home") THEN "away"
    ELSE None

\* C29: between two steps of a period, the context that generate_box_scores
\* credits with the time up to the next event has the PP tag on the side
\* with more skaters, and is a line/pairing context if the manpower is even.
ContextMatchesManpower ==
    pc \in {"period", "overtime"} => box.pp_side = Advantage

\* the events of type type and side side that the step appended
LoggedBy(type, side) ==
    {k \in 1..Len(events') : events'[k].type = type /\ events'[k].team = side}

\* the sum of the payloads of the events ks of the step
RECURSIVE PayloadSum(_)
PayloadSum(ks) ==
    IF ks = {} THEN 0
    ELSE LET k == CHOOSE k \in ks : TRUE IN events'[k].payload + PayloadSum(ks \ {k})

\* the event before the first event of the step, as a list: empty if the
\* log was empty
Previous == IF events = <<>> /\ before = NoEvent THEN <<>> ELSE <<before'>>

\* C30: generate_box_scores conserves the counts of the log: what the
\* events of a step add to the sums of its rows is, for each side, the
\* change of the score as goals, the number of shot events as shots, the
\* number of penalty events as penalties taken and as penalties drawn by
\* the other side, and the sum of their minute payloads as penalty minutes.
CountsConserved ==
    [][ \A c \in {Counts(NoCounts, events', Previous)} : \A side \in Sides :
          /\ c.goals[side] = score'[side] - score[side]
          /\ c.goals[side] = goal_events'[side] - goal_events[side]
          /\ c.shots[side] = Cardinality(LoggedBy("shot", side))
          /\ c.penalties_taken[side] = Cardinality(LoggedBy("penalty", side))
          /\ c.penalties_drawn[Other(side)] = c.penalties_taken[side]
          /\ c.penalty_minutes[side] = PayloadSum(LoggedBy("penalty", side))
          /\ c.penalties_taken["home"] + c.penalties_taken["away"]
                = penalties_drawn' - penalties_drawn
      ]_vars

\* away scored while home was serving a penalty: the step logged the shot
\* and the goal, after a step that logged the penalty
PowerPlayGoalCounted ==
    /\ last_step = [kind |-> "goal", team |-> "away"]
    /\ \E k \in 1..Len(events) : events[k].type = "shot" /\ events[k].team = "away"
    /\ \E k \in 1..Len(events) : events[k].type = "goal" /\ events[k].team = "away"
    /\ penalties["home"] # <<>>
    /\ penalties_drawn > 0
    /\ goal_events["away"] = 1
    /\ score["away"] = 1

\* ------------------------------------------------------------------------
\* Properties of the on-ice units and of the manpower
\* ------------------------------------------------------------------------
\* C31: while the goalie of a side is pulled, the on-ice unit of the side
\* has no goalie and at most 6 players, and is the base unit of the side
\* (the special unit if one is set, else line and pair) followed by one
\* skater who is not in the base unit.
PulledUnitRule ==
    \A side \in Sides :
        pulled_team = side /\ pc \in {"period", "overtime"} =>
            /\ \A i \in 1..Len(players[side]) : position(side, players[side][i]) # "G"
            /\ Len(players[side]) <= PULLED_SKATERS
            /\ \E x \in Range(roster(side)) \ Range(SkaterBase(Self, side)) :
                  players[side] = Append(SkaterBase(Self, side), x)

\* the tag a shot of team carries if the tags follow the active penalties
\* of the state the step starts in (no penalty starts or ends between the
\* start of the step and the shot)
ShotTagByPenalties(team) ==
    IF team = "home" /\ ActiveCount(Self, "away") > ActiveCount(Self, "home")
    THEN "home_pp_shot"
    ELSE IF team = "away" /\ ActiveCount(Self, "home") > ActiveCount(Self, "away")
    THEN "away_pp_shot"
    ELSE "even"

\* C32: every shot event is tagged home_pp_shot if home shoots while away
\* has more active penalties, away_pp_shot if away shoots while home has
\* more, and even otherwise.
ShotTagRule ==
    [][ \A k \in 1..Len(events') :
            events'[k].type = "shot" =>
                events'[k].context = ShotTagByPenalties(events'[k].team)
      ]_vars

\* C33: the manpower pair of every state of a period, before and after the
\* pulled-goalie evaluation of the next step, is a key of
\* SHOT_RATE_BASELINES and of XG_BASELINES, and the key sample_assists
\* looks up for a goal of either side is a key of ASSIST_DISTRIBUTIONS: no
\* lookup falls back on the 5-vs-5 entry.
NoBaselineFallback ==
    pc \in {"period", "overtime"} =>
        \A g \in {Self, Pulled} :
            /\ Situation(g) \in DOMAIN SHOT_RATE_BASELINES
            /\ Situation(g) \in DOMAIN XG_BASELINES
            /\ AssistSituation(Situation(g)[1], Situation(g)[2])
                  \in DOMAIN ASSIST_DISTRIBUTIONS
            /\ AssistSituation(Situation(g)[2], Situation(g)[1])
                  \in DOMAIN ASSIST_DISTRIBUTIONS

\* away has pulled its goalie and home serves a penalty: 4 against 6
FourAgainstSix ==
    /\ pc = "period"
    /\ pulled_team = "away"
    /\ Situation(Self) = <<4, 6>>

\* ------------------------------------------------------------------------
\* Properties of overtime
\* ------------------------------------------------------------------------
\* C34: overtime is sudden death.  Overtime is played with the scores
\* level; the step of overtime that changes the score logs exactly one
\* goal, ends the game, and leaves an overtime_goal event as the last event
\* of the log, at the time of the goal, with a margin of one goal; a game in
\* overtime ends in no other way, and nothing is logged after it ended.
SuddenDeath ==
    [][ /\ pc # "done"
        /\ pc \in {"overtime_start", "overtime"} => score["home"] = score["away"]
        /\ pc = "overtime" /\ score' # score =>
              /\ pc' = "done"
              /\ Cardinality(Logged("goal")) = 1
              /\ events'[Len(events')].type = "overtime_goal"
              /\ \A k \in Logged("goal") :
                    events'[Len(events')].time = events'[k].time
              /\ events'[Len(events')].time = current_time'
              /\ Logged("period_end") = {}
              /\ score'["home"] - score'["away"] \in {-1, 1}
        /\ pc = "overtime" /\ pc' = "done" => score' # score
      ]_vars

\* away won in the second overtime
WonInSecondOvertime ==
    /\ pc = "done"
    /\ current_period.is_overtime
    /\ current_period.period_number = REGULATION_PERIODS + 2
    /\ events[Len(events)].type = "overtime_goal"
    /\ score["away"] = score["home"] + 1

\* C35: a side whose goalie is pulled at the end of a step is behind; no
\* goalie is pulled when the third period has ended level, nor in overtime.
PulledSideTrails ==
    /\ \A side \in Sides : pulled_team = side => score[side] < score[Other(side)]
    /\ pc \in {"overtime_start", "overtime"} => pulled_team = None
    /\ current_period.is_overtime => pulled_team = None

\* home scored with its goalie pulled and is still a goal behind
PulledSideStillBehind ==
    /\ pulled_team = "home"
    /\ last_step = [kind |-> "goal", team |-> "home"]
    /\ score["away"] = score["home"] + 1

\* the players of the active penalty records of side
Serving(side) ==
    {penalties[side][i].player : i \in
        {j \in 1..Len(penalties[side]) : penalties[side][j].segment_end > current_time}}

\* C36: between the steps of a period no player with an active penalty
\* record is in the on-ice unit of their side.
PenalizedOffIce ==
    pc \in {"period", "overtime"} =>
        \A side \in Sides : Serving(side) \cap Range(players[side]) = {}

\* C37: between the steps of a period both special-unit overrides are None
\* exactly when no side has an active penalty record, and the unavailable
\* set of each side is the set of the players of its active records.
OverridesFollowPenalties ==
    pc \in {"period", "overtime"} =>
        /\ (\A side \in Sides : special_skaters[side].is_none)
              <=> (\A side \in Sides : Serving(side) = {})
        /\ \A side \in Sides : unavailable[side] = Serving(side)

\* ------------------------------------------------------------------------
\* Properties of League.build_weeks
\* ------------------------------------------------------------------------
\* the games of the weeks built so far, in one list
RECURSIVE Flatten(_)
Flatten(ws) == IF ws = <<>> THEN <<>> ELSE Head(ws) \o Flatten(Tail(ws))

\* how often game occurs in the list games
Count(game, games) == Cardinality({i \in 1..Len(games) : games[i] = game})

\* the teams of the game
Teams(game) == {game[1], game[2]}

\* C38: build_weeks partitions the schedule into weeks: every game of the
\* schedule is as often in the weeks and in the games still to place as in
\* the schedule, hence in exactly one week when the loop has returned; no
\* two games of a week share a team; no week is empty; and the loop returns
\* for every schedule without a game of a team against itself.
WeeksPartition ==
    /\ [](\A game \in Pairings :
             Count(game, Flatten(weeks)) + Count(game, remaining)
                = Count(game, schedule))
    /\ [](pc = "weeks_built" => remaining = <<>>)
    /\ [](\A w \in 1..Len(weeks) :
             /\ weeks[w] # <<>>
             /\ \A i, j \in 1..Len(weeks[w]) :
                   i # j => Teams(weeks[w][i]) \cap Teams(weeks[w][j]) = {})
    /\ ((\A i \in 1..Len(schedule) : schedule[i][1] # schedule[i][2])
            => <>(pc = "weeks_built"))

\* a schedule with the same game twice and a game of two other teams is
\* packed into a week of two games and a week of one
RepeatedGameNextWeek ==
    /\ pc = "weeks_built"
    /\ Len(schedule) = 3
    /\ schedule[1] = schedule[2]
    /\ schedule[1][1] # schedule[1][2]
    /\ Len(weeks) = 2
    /\ Len(weeks[1]) = 2
    /\ weeks[2] = <<schedule[2]>>

====
